---- MODULE Spec2Model ----
(***************************************************************************)
(* Blog-MCP-Server: the AI orchestration layer (services/ai_service.py),   *)
(* the content pipeline and its response parsers                           *)
(* (services/content_service.py) and the media tools                       *)
(* (media_server.py), as one state machine.                                *)
(*                                                                         *)
(* Three call levels are modelled, each with its own position variable:    *)
(*   pc       the caller-facing operation (a direct AIService call, a      *)
(*            ContentService task, the generate_image tool, or             *)
(*            batch_generate_images);                                      *)
(*   tool_pc  the generate_image tool of media_server.py;                  *)
(*   ai_pc    the AIService method in progress.                            *)
(* Python runs a coroutine synchronously up to its first real suspension,  *)
(* so an invocation and everything it does before it awaits the network    *)
(* is one action; the provider's answer is a second action.                *)
(***************************************************************************)
EXTENDS Integers, Sequences, FiniteSets, TLC

VARIABLES
    deepseek_key,   \* Config.DEEPSEEK_API_KEY is set             (config.py:20)
    openai_client,  \* AIService.openai_client is not None        (ai_service.py:25)
    azure_client,   \* AIService.azure_client is not None         (ai_service.py:26)
    init_logged,    \* _init_clients logged and dropped an error  (ai_service.py:52-53)
    tools,          \* each server's registered tool names (the @mcp.tool() lines)
    pc,             \* position of the caller-facing operation
    op,             \* the caller-facing operation and its arguments
    ret,            \* what the caller-facing operation delivered
    ai_pc,          \* position of the AIService method
    ai_call,        \* the AIService method in progress and its arguments
    ai_ret,         \* what the AIService method delivered
    net,            \* outbound requests issued since the operation began
    tool_pc,        \* position of the generate_image tool
    tool_req,       \* the tool's ImageGenerationRequest
    tool_ret,       \* the mapping the tool returned
    i,              \* batch loop index (0-based, as enumerate gives it)
    results,        \* batch: the results list
    failed_count,   \* batch: failed_count
    events,         \* batch: what the loop did, in order
    today,          \* the day datetime.now() falls on       (zola_utils.py:143)
    slug_calls,     \* generate_slug: the calls made, in order
    reading_calls,  \* estimate_reading_time: the calls made, in order
    cmds,           \* management server: the steps and commands run, in order
    pub_req,        \* publish_blog_post: the request and the file it names
    pub_results,    \* publish_blog_post: the results mapping being built
    deploy_results  \* _deploy_site: the results list

aiVars    == <<ai_pc, ai_call, ai_ret, net>>
toolVars  == <<tool_pc, tool_req, tool_ret>>
batchVars == <<i, results, failed_count, events>>
cfgVars   == <<deepseek_key, openai_client, azure_client, init_logged, tools>>
slugVars  == <<today, slug_calls>>
mgmtVars  == <<cmds, pub_req, pub_results, deploy_results>>
auxVars   == <<slugVars, reading_calls, mgmtVars>>
mainVars  == <<cfgVars, pc, op, ret, aiVars, toolVars, batchVars>>
vars      == <<mainVars, auxVars>>

----------------------------------------------------------------------------
(* Bounds of the model.                                                    *)

\* Longest response text enumerated exhaustively, in tokens.
MaxRespLen == 2
\* Longest prompt list handed to batch_generate_images.
MaxPrompts == 3

\* Longest title enumerated exhaustively, in characters.
MaxTitleLen == 3

\* Days the clock runs through.
MaxDays == 2

\* Most copies of a unit text a content is made of.
MaxReps == 105

\* Longest Markdown text enumerated exhaustively, in characters.
MaxTextLen == 6

----------------------------------------------------------------------------
(* Texts.  A text is a sequence of tokens.  Model names are spelled out    *)
(* character by character because generate_text inspects their prefix.     *)

StartsWith(s, prefix) ==
    /\ Len(s) >= Len(prefix)
    /\ SubSeq(s, 1, Len(prefix)) = prefix

DEEPSEEK == <<"d", "e", "e", "p", "s", "e", "e", "k">>
GPT      == <<"g", "p", "t">>

ModelNames ==
    { DEEPSEEK,
      <<"g", "p", "t", "-", "4">>,
      <<"g", "p", "t", "-", "3", ".", "5">>,
      GPT,
      <<"g", "p">>,
      <<"d", "a", "l", "l", "-", "e">>,
      <<>> }

Prompts == {<<"p1">>, <<"p2">>}

----------------------------------------------------------------------------
(* JSON.  json.loads (the standard library, used at                        *)
(* content_service.py:352, 365, 378 and 391) is modelled on token          *)
(* sequences for a subset of the grammar: a scalar, an array of scalars,   *)
(* or an object whose members map a string to a scalar.  A decoded object  *)
(* is a function from its keys to the text of each value; a later          *)
(* duplicate key wins, as in Python.                                       *)

Keys ==
    { "title", "summary", "content", "improvements", "structure",
      "estimated_length", "key_points", "seo_score" }

\* The order in which the sample objects list their members.
KeyOrder ==
    << "title", "summary", "content", "improvements", "structure",
       "estimated_length", "key_points", "seo_score" >>

StrToks    == Keys \cup {"T"}           \* quoted strings
ScalarToks == StrToks \cup {"7", "null"} \* strings, a number, null

IsObjectText(t) ==
    /\ Len(t) >= 2
    /\ t[1] = "{"
    /\ \/ t = <<"{", "}">>
       \/ /\ Len(t) % 4 = 1
          /\ \A j \in 0 .. ((Len(t) - 1) \div 4) - 1 :
                /\ t[2 + 4 * j] \in StrToks
                /\ t[3 + 4 * j] = ":"
                /\ t[4 + 4 * j] \in ScalarToks
                /\ t[5 + 4 * j] = (IF 5 + 4 * j = Len(t) THEN "}" ELSE ",")

IsArrayText(t) ==
    /\ Len(t) >= 2
    /\ t[1] = "["
    /\ \/ t = <<"[", "]">>
       \/ /\ Len(t) % 2 = 1
          /\ \A j \in 1 .. (Len(t) - 1) \div 2 :
                /\ t[2 * j] \in ScalarToks
                /\ t[2 * j + 1] = (IF 2 * j + 1 = Len(t) THEN "]" ELSE ",")

IsScalarText(t) == Len(t) = 1 /\ t[1] \in ScalarToks

ObjectKeys(t) == { t[2 + 4 * j] : j \in 0 .. ((Len(t) - 1) \div 4) - 1 }

\* The member of object text t that gives key k its value: the last one.
LastMember(t, k) ==
    CHOOSE j \in 0 .. ((Len(t) - 1) \div 4) - 1 :
        /\ t[2 + 4 * j] = k
        /\ \A m \in 0 .. ((Len(t) - 1) \div 4) - 1 :
              t[2 + 4 * m] = k => m <= j

NoDict == [k \in {} |-> <<>>]

\* json.loads: [ok |-> FALSE] stands for json.JSONDecodeError.
json_loads(t) ==
    IF IsObjectText(t)
    THEN [ok |-> TRUE, t |-> "dict",
          d |-> [k \in ObjectKeys(t) |-> <<t[4 + 4 * LastMember(t, k)]>>],
          l |-> <<>>]
    ELSE IF IsArrayText(t)
    THEN [ok |-> TRUE, t |-> "list", d |-> NoDict,
          l |-> [j \in 1 .. (Len(t) - 1) \div 2 |-> t[2 * j]]]
    ELSE IF IsScalarText(t)
    THEN [ok |-> TRUE, t |-> "scalar", d |-> NoDict, l |-> t]
    ELSE [ok |-> FALSE, t |-> "none", d |-> NoDict, l |-> <<>>]

\* A Python value that is a dict (the parsers' fallbacks).
Dict(d) == [ok |-> TRUE, t |-> "dict", d |-> d, l |-> <<>>]

\* {"error": str(e)}
ErrorDict(msg) == Dict([k \in {"error"} |-> <<msg>>])

\* Python's `k in v` / v[k] succeed only on a dict holding k.
HasKey(v, k) == v.t = "dict" /\ k \in DOMAIN v.d

\* The text of the object whose members are the keys ks, each with value "T".
RECURSIVE Members(_, _)
Members(ks, n) ==
    IF n > Len(KeyOrder) THEN <<>>
    ELSE IF KeyOrder[n] \in ks
         THEN (IF \E m \in (n + 1) .. Len(KeyOrder) : KeyOrder[m] \in ks
               THEN <<KeyOrder[n], ":", "T", ",">>
               ELSE <<KeyOrder[n], ":", "T">>) \o Members(ks, n + 1)
         ELSE Members(ks, n + 1)

ObjectText(ks) == <<"{">> \o Members(ks, 1) \o <<"}">>

RespAlphabet == {"{", "}", "[", "]", "T", "7", "Sorry"}

\* Every text of at most MaxRespLen tokens over RespAlphabet.
ShortTexts ==
    UNION { [1 .. n -> RespAlphabet] : n \in 0 .. MaxRespLen }

\* Longer texts: every object over Keys, and some malformed neighbours.
SampleTexts ==
    { ObjectText(ks) : ks \in SUBSET Keys }
    \cup { <<"{", "title", ":", "T">>,                      \* truncated
           <<"{", "title", ":", "T", "}", "Sorry">>,        \* extra data
           <<"{", "title", ":", "T", ",", "title", ":", "7", "}">>,
           <<"[", "T", ",", "7", "]">>,
           <<"Sorry", "{", "title", ":", "T", "}">> }       \* prose first

Responses == ShortTexts \cup SampleTexts

----------------------------------------------------------------------------
(* ContentService._parse_*_response: json.loads inside try / bare except.  *)
(* The result is [raised |-> B, v |-> value].  Placeholder strings are     *)
(* English glosses of the source's Chinese literals.                       *)

Returned(v) == [raised |-> FALSE, v |-> v]
Raised      == [raised |-> TRUE,  v |-> [ok |-> FALSE, t |-> "none", d |-> NoDict, l |-> <<>>]]

\* Mutant: the fallback's content is a placeholder, the response is lost.
ContentFallbackNoText(response) ==
    Dict([k \in {"title", "summary", "content"} |->
            CASE k = "title"   -> <<"generated-post">>
              [] k = "summary" -> <<"post-summary">>
              [] k = "content" -> <<"post-content">>])

ContentFallback(response) ==
    Dict([k \in {"title", "summary", "content"} |->
            CASE k = "title"   -> <<"generated-post">>
              [] k = "summary" -> <<"post-summary">>
              [] k = "content" -> response])

OptimizationFallback(response) ==
    Dict([k \in {"content", "improvements", "seo_score", "readability_score"} |->
            CASE k = "content"           -> response
              [] k = "improvements"      -> <<"content-optimized">>
              [] k = "seo_score"         -> <<"8">>
              [] k = "readability_score" -> <<"8">>])

OutlineFallback(response) ==
    Dict([k \in {"structure", "estimated_length", "key_points", "resources"} |->
            CASE k = "structure"        -> <<"main-content">>
              [] k = "estimated_length" -> <<"2000">>
              [] k = "key_points"       -> <<"point-1", "point-2">>
              [] k = "resources"        -> <<>>])

AnalysisFallback(response) ==
    Dict([k \in {"seo_score", "readability_score", "engagement_potential",
                 "suggestions"} |->
            CASE k = "seo_score"            -> <<"7">>
              [] k = "readability_score"    -> <<"7">>
              [] k = "engagement_potential" -> <<"7">>
              [] k = "suggestions"          -> <<"add-subheadings", "add-code">>])

\* Mutant: no except clause, the decode error escapes.
TryLoadsNoExcept(response, fallback) ==
    IF json_loads(response).ok
    THEN Returned(json_loads(response))
    ELSE Raised

\* try: return json.loads(response)  except: return <fallback>
TryLoads(response, fallback) ==
    IF json_loads(response).ok
    THEN Returned(json_loads(response))
    ELSE Returned(fallback)

_parse_content_response(response) ==
    TryLoads(response, ContentFallback(response))

_parse_optimization_response(response) ==
    TryLoads(response, OptimizationFallback(response))

_parse_outline_response(response) ==
    TryLoads(response, OutlineFallback(response))

_parse_analysis_response(response) ==
    TryLoads(response, AnalysisFallback(response))

----------------------------------------------------------------------------
(* Python values and outcomes.  A str is a text; a dict maps keys to       *)
(* values, each value a sequence.                                          *)

Str(text) == [ok |-> TRUE, t |-> "str", d |-> NoDict, l |-> text]
NoValue   == [ok |-> FALSE, t |-> "none", d |-> NoDict, l |-> <<>>]

\* An outcome: nothing yet, a returned value, or a raised exception.
NoRet        == [status |-> "none",   exc |-> "", v |-> NoValue]
Return(v)    == [status |-> "return", exc |-> "", v |-> v]
Raise(exc)   == [status |-> "raise",  exc |-> exc, v |-> NoValue]

\* The ValueErrors AIService raises when a provider is not configured
\* (ai_service.py:112, 121, 149): the configuration failures.
ConfigErrors ==
    { "ValueError: DeepSeek API key not configured",
      "ValueError: OpenAI client not initialised",
      "ValueError: no image generation service available" }

IsConfigFailure(r) == r.status = "raise" /\ r.exc \in ConfigErrors

----------------------------------------------------------------------------
(* AIService (services/ai_service.py).  Each method first decides, with    *)
(* no suspension, whether it raises or issues its one provider request.    *)

DoRaise(exc)   == [raise |-> TRUE,  exc |-> exc, request |-> ""]
DoRequest(req) == [raise |-> FALSE, exc |-> "",  request |-> req]

\* __init__ / _init_clients: which clients exist, given the keys and the
\* constructor that raised ("none", "openai" or "azure").  The except
\* clause logs the error and returns normally.
_init_clients(openai_key, azure_cfg, ctor_raises) ==
    [ openai |-> openai_key /\ ctor_raises # "openai",
      azure  |-> /\ azure_cfg
                 /\ ~(openai_key /\ ctor_raises = "openai")
                 /\ ctor_raises # "azure",
      logged |-> \/ openai_key /\ ctor_raises = "openai"
                 \/ /\ azure_cfg
                    /\ ~(openai_key /\ ctor_raises = "openai")
                    /\ ctor_raises = "azure" ]

\* Mutant: the key check of ai_service.py:120-121 left out.
_generate_with_deepseek_unchecked(key) ==
    DoRequest("POST https://api.deepseek.com/v1/chat/completions")

_generate_with_deepseek(key) ==
    IF ~key
    THEN DoRaise("ValueError: DeepSeek API key not configured")
    ELSE DoRequest("POST https://api.deepseek.com/v1/chat/completions")

_generate_with_openai(client) ==
    IF ~client
    THEN DoRaise("ValueError: OpenAI client not initialised")
    ELSE DoRequest("openai chat.completions.create")

\* generate_text's branch on the model name.
TextRoute(model) ==
    IF model = DEEPSEEK THEN "deepseek"
    ELSE IF StartsWith(model, GPT) THEN "openai"
    ELSE "deepseek"

generate_text(model, key, client) ==
    IF TextRoute(model) = "deepseek"
    THEN _generate_with_deepseek(key)
    ELSE _generate_with_openai(client)

\* Mutant: the final else of ai_service.py:111-112 left out.
generate_image_unchecked(azure, openai) ==
    IF azure THEN DoRequest("azure images.generate")
    ELSE DoRequest("openai images.generate")

generate_image(azure, openai) ==
    IF azure THEN DoRequest("azure images.generate")
    ELSE IF openai THEN DoRequest("openai images.generate")
    ELSE DoRaise("ValueError: no image generation service available")

\* analyze_image: the OpenAI vision request, or ValueError with no client.
analyze_image(openai) ==
    IF openai THEN DoRequest("openai chat.completions.create vision")
    ELSE DoRaise("ValueError: image analysis needs the OpenAI client")

\* translate_text, summarize_text and enhance_prompt build a prompt and
\* await generate_text with the default model.
TextHelpers == {"translate_text", "summarize_text", "enhance_prompt"}

\* What the provider can answer to one request.
ReplyKinds == {"ok", "http_error", "malformed", "timeout"}

ReplyExc(kind) ==
    CASE kind = "http_error" -> "HTTPStatusError"
      [] kind = "malformed"  -> "KeyError"
      [] kind = "timeout"    -> "TimeoutException"

ImageDict(url, revised) ==
    Dict([k \in {"url", "revised_prompt"} |->
            IF k = "url" THEN <<url>> ELSE revised])

\* The method's outcome once the provider has answered.
AIOutcome(call, kind, text) ==
    IF kind # "ok" THEN Raise(ReplyExc(kind))
    ELSE IF call.fn = "generate_image"
         THEN Return(ImageDict("https://img/1", call.prompt))
    ELSE Return(Str(text))

\* Mutant: a timed-out request is sent once more.
ContinueRetry(call, kind, text, sent) ==
    IF kind = "timeout" /\ Len(sent) < 2
    THEN [pc |-> "await", ret |-> NoRet, requests |-> <<sent[Len(sent)]>>]
    ELSE [pc |-> "done", ret |-> AIOutcome(call, kind, text), requests |-> <<>>]

\* How the method goes on once its awaited request is answered, `sent` being
\* the requests issued so far: it returns the result or lets the exception
\* pass (except: log; raise), and issues no further request.
Continue(call, kind, text, sent) ==
    [pc |-> "done", ret |-> AIOutcome(call, kind, text), requests |-> <<>>]

AICall(fn, prompt, model) == [fn |-> fn, prompt |-> prompt, model |-> model]
NoCall == AICall("", <<>>, <<>>)

Dispatch(call) ==
    IF call.fn = "generate_text"
    THEN generate_text(call.model, deepseek_key, openai_client)
    ELSE IF call.fn \in TextHelpers
    THEN generate_text(DEEPSEEK, deepseek_key, openai_client)
    ELSE IF call.fn = "analyze_image"
    THEN analyze_image(openai_client)
    ELSE generate_image(azure_client, openai_client)

\* Invoking an AIService method with `base` the requests issued so far.
AIInvoke(call, base) ==
    /\ ai_call' = call
    /\ IF Dispatch(call).raise
       THEN /\ ai_pc' = "done"
            /\ ai_ret' = Raise(Dispatch(call).exc)
            /\ net' = base
       ELSE /\ ai_pc' = "await"
            /\ ai_ret' = NoRet
            /\ net' = Append(base, Dispatch(call).request)

\* The texts a provider answers with.  A ContentService task decodes the
\* answer, so it gets every response text; elsewhere the answer is prose
\* that nobody parses.
ReplyTexts ==
    IF ai_call.fn = "generate_image" THEN {<<>>}
    ELSE IF pc = "task" THEN Responses
    ELSE IF pc = "content_tool" THEN SampleTexts
    ELSE {<<"T">>, <<"Sorry", "T">>}

\* The provider answers the outstanding request.
ProviderReply ==
    /\ ai_pc = "await"
    /\ \E kind \in ReplyKinds :
         \E text \in (IF kind = "ok" THEN ReplyTexts ELSE {<<>>}) :
            /\ ai_pc' = Continue(ai_call, kind, text, net).pc
            /\ ai_ret' = Continue(ai_call, kind, text, net).ret
            /\ net' = net \o Continue(ai_call, kind, text, net).requests
    /\ UNCHANGED <<cfgVars, auxVars, pc, op, ret, ai_call, toolVars, batchVars>>

----------------------------------------------------------------------------
(* The caller-facing operation.                                            *)

Op(name, prompt, model, content, prompts, ctx) ==
    [ name |-> name, prompt |-> prompt, model |-> model,
      content |-> content, prompts |-> prompts, ctx |-> ctx ]
NoOp == Op("", <<>>, <<>>, <<>>, <<>>, FALSE)

\* Invocations share nothing but the configuration, which never changes
\* after import, so a behaviour follows one invocation from its call to
\* its outcome.
Free == pc = "idle"

\* The generate_image tool's request and locals (media_server.py:33-40).
ToolReq(prompt, style, ctx, optimized, image) ==
    [ prompt |-> prompt, style |-> style, ctx |-> ctx,
      optimized |-> optimized, image |-> image ]
NoReq == ToolReq(<<>>, "", FALSE, <<>>, NoValue)

\* An invocation starts with fresh locals in the frames it does not use.
FreshTool  == tool_pc' = "idle" /\ tool_req' = NoReq /\ tool_ret' = NoValue
FreshBatch == i' = 0 /\ results' = <<>> /\ failed_count' = 0 /\ events' = <<>>
FreshAI    == ai_pc' = "idle" /\ ai_call' = NoCall /\ ai_ret' = NoRet

\* A caller invokes AIService.generate_text(prompt, model).
CallGenerateText ==
    /\ Free
    /\ \E prompt \in Prompts, model \in ModelNames :
          /\ op' = Op("generate_text", prompt, model, <<>>, <<>>, FALSE)
          /\ AIInvoke(AICall("generate_text", prompt, model), <<>>)
    /\ pc' = "ai"
    /\ ret' = NoRet
    /\ FreshTool
    /\ FreshBatch
    /\ UNCHANGED <<cfgVars, auxVars>>

\* A caller invokes AIService.generate_image(prompt, size, quality).
CallGenerateImage ==
    /\ Free
    /\ \E prompt \in Prompts :
          /\ op' = Op("generate_image", prompt, <<>>, <<>>, <<>>, FALSE)
          /\ AIInvoke(AICall("generate_image", prompt, <<>>), <<>>)
    /\ pc' = "ai"
    /\ ret' = NoRet
    /\ FreshTool
    /\ FreshBatch
    /\ UNCHANGED <<cfgVars, auxVars>>

\* A caller invokes AIService.analyze_image(image_url, query).
CallAnalyzeImage ==
    /\ Free
    /\ \E prompt \in Prompts :
          /\ op' = Op("analyze_image", prompt, <<>>, <<>>, <<>>, FALSE)
          /\ AIInvoke(AICall("analyze_image", prompt, <<>>), <<>>)
    /\ pc' = "ai"
    /\ ret' = NoRet
    /\ FreshTool
    /\ FreshBatch
    /\ UNCHANGED <<cfgVars, auxVars>>

\* A caller invokes translate_text, summarize_text or enhance_prompt.
CallTextHelper ==
    /\ Free
    /\ \E fn \in TextHelpers, prompt \in Prompts :
          /\ op' = Op(fn, prompt, DEEPSEEK, <<>>, <<>>, FALSE)
          /\ AIInvoke(AICall(fn, prompt, DEEPSEEK), <<>>)
    /\ pc' = "ai"
    /\ ret' = NoRet
    /\ FreshTool
    /\ FreshBatch
    /\ UNCHANGED <<cfgVars, auxVars>>

\* Every AIService method: `except Exception: log; raise`, or return.
AIReturn ==
    /\ pc = "ai"
    /\ ai_pc = "done"
    /\ ret' = ai_ret
    /\ pc' = "done"
    /\ ai_pc' = "idle"
    /\ UNCHANGED <<cfgVars, auxVars, op, ai_call, ai_ret, net, toolVars, batchVars>>

----------------------------------------------------------------------------
(* ContentService tasks (services/content_service.py).  Each builds its    *)
(* prompt, awaits ai_service.generate_text(prompt) with the default model  *)
(* and parses the response.                                                *)

Tasks ==
    { "generate_blog_content", "optimize_content", "generate_outline",
      "analyze_content_performance" }

\* The content handed to a task: a few whitespace-delimited tokens.
Contents == { <<>>, <<"w">>, <<"#", "w">> }

\* content_service.py:160-161: the Markdown markers (hash, star, backtick,
\* brackets, parentheses) are deleted, then the text is split on whitespace:
\* a token made only of markers vanishes.
MarkerToks == {"#", "*", "[", "]", "(", ")"}
StrippedWords(content) == SelectSeq(content, LAMBDA w : w \notin MarkerToks)

\* Mutant: a tie is rounded up.
RoundDiv200HalfUp(n) == (n + 100) \div 200

\* Python's round(n / 200): to the nearest integer, ties to the even one.
RoundDiv200(n) ==
    LET q == n \div 200
        r == n % 200
    IN  IF r > 100 THEN q + 1
        ELSE IF r < 100 THEN q
        ELSE IF q % 2 = 0 THEN q ELSE q + 1

\* Mutant: the floor at one minute is left out.
estimate_reading_time_no_floor(content) ==
    RoundDiv200(Len(StrippedWords(content)))

estimate_reading_time(content) ==
    LET rt == RoundDiv200(Len(StrippedWords(content)))
    IN  IF rt < 1 THEN 1 ELSE rt

\* The mapping analyze_content_performance returns from its except clause.
BasicAnalysis(content) ==
    Dict([k \in {"word_count", "reading_time", "seo_score", "readability_score",
                 "engagement_potential", "suggestions"} |->
            CASE k = "word_count"   -> <<Len(content)>>
              [] k = "reading_time" -> <<estimate_reading_time(content)>>
              [] k = "suggestions"  ->
                    <<"add-subheadings", "add-code-examples", "add-images">>
              [] OTHER              -> <<"7">>])

\* analysis_data.get(k, default) for each reported key.
AnalysisResult(content, data) ==
    Dict([k \in {"word_count", "reading_time", "seo_score", "readability_score",
                 "engagement_potential", "suggestions"} |->
            CASE k = "word_count"   -> <<Len(content)>>
              [] k = "reading_time" -> <<estimate_reading_time(content)>>
              [] OTHER ->
                    IF k \in DOMAIN data.d THEN data.d[k]
                    ELSE IF k = "suggestions" THEN <<>> ELSE <<"7">>])

\* A parser's result as the task's outcome.
Parsed(p) == IF p.raised THEN Raise("JSONDecodeError") ELSE Return(p.v)

\* try: ...; return data  except Exception: log; raise
generate_blog_content(r) ==
    IF r.status = "raise" THEN Raise(r.exc)
    ELSE Parsed(_parse_content_response(r.v.l))

optimize_content(r) ==
    IF r.status = "raise" THEN Raise(r.exc)
    ELSE Parsed(_parse_optimization_response(r.v.l))

generate_outline(r) ==
    IF r.status = "raise" THEN Raise(r.exc)
    ELSE Parsed(_parse_outline_response(r.v.l))

\* try: ...  except Exception: return the basic analysis.  A decoded value
\* that is no dict has no .get: the AttributeError lands in the same except.
analyze_content_performance(content, r) ==
    IF r.status = "raise" THEN Return(BasicAnalysis(content))
    ELSE IF _parse_analysis_response(r.v.l).raised
         THEN Return(BasicAnalysis(content))
    ELSE IF _parse_analysis_response(r.v.l).v.t # "dict"
         THEN Return(BasicAnalysis(content))
    ELSE Return(AnalysisResult(content, _parse_analysis_response(r.v.l).v))

TaskOutcome(task, content, r) ==
    CASE task = "generate_blog_content"       -> generate_blog_content(r)
      [] task = "optimize_content"            -> optimize_content(r)
      [] task = "generate_outline"            -> generate_outline(r)
      [] task = "analyze_content_performance" ->
            analyze_content_performance(content, r)

\* A caller starts a task; the prompt is built and generate_text invoked.
CallTask ==
    /\ Free
    /\ \E task \in Tasks, content \in Contents :
          /\ op' = Op(task, <<task>>, DEEPSEEK, content, <<>>, FALSE)
          /\ AIInvoke(AICall("generate_text", <<task>>, DEEPSEEK), <<>>)
    /\ pc' = "task"
    /\ ret' = NoRet
    /\ FreshTool
    /\ FreshBatch
    /\ UNCHANGED <<cfgVars, auxVars>>

\* generate_text has returned or raised: the task parses and finishes.
TaskFinish ==
    /\ pc = "task"
    /\ ai_pc = "done"
    /\ ret' = TaskOutcome(op.name, op.content, ai_ret)
    /\ pc' = "done"
    /\ ai_pc' = "idle"
    /\ UNCHANGED <<cfgVars, auxVars, op, ai_call, ai_ret, net, toolVars, batchVars>>

----------------------------------------------------------------------------
(* The content server's tools over the pipeline tasks                      *)
(* (content_server.py:48-168): create_blog_post, optimize_blog_content     *)
(* and generate_blog_outline.                                              *)

ContentToolNames ==
    {"create_blog_post", "optimize_blog_content", "generate_blog_outline"}

\* The ContentService task each tool awaits.
TaskOf(tool) ==
    CASE tool = "create_blog_post"      -> "generate_blog_content"
      [] tool = "optimize_blog_content" -> "optimize_content"
      [] tool = "generate_blog_outline" -> "generate_outline"

\* A decoded value that is a str: the number and null are not.
IsStrValue(val) == val = <<>> \/ val[1] \notin {"7", "null"}

\* Mutant: the tool has no except clause, the exception escapes.
ToolExceptReraise(exc) == Raise(exc)

\* except Exception as e: log; return {"error": str(e)}
ToolExcept(exc) == Return(ErrorDict(exc))

\* create_blog_post after generate_blog_content: the three lookups raise
\* KeyError on a missing key and TypeError on a value that is no dict;
\* generate_slug and estimate_reading_time apply re.sub to the title and
\* the content and raise TypeError unless they are str.  The slug, path and
\* frontmatter are kept symbolic: what was derived, and from which title.
create_blog_post(r, include_images) ==
    IF r.status = "raise" THEN ToolExcept(r.exc)
    ELSE IF r.v.t # "dict" THEN ToolExcept("TypeError")
    ELSE IF ~HasKey(r.v, "title") \/ ~HasKey(r.v, "summary")
    THEN ToolExcept("KeyError")
    ELSE IF ~IsStrValue(r.v.d["title"]) THEN ToolExcept("TypeError")
    ELSE IF ~HasKey(r.v, "content") THEN ToolExcept("KeyError")
    ELSE IF ~IsStrValue(r.v.d["content"]) THEN ToolExcept("TypeError")
    ELSE Return(Dict(
           [k \in {"title", "content", "file_path", "slug", "frontmatter",
                   "summary", "image_suggestions", "estimated_reading_time"} |->
              CASE k = "title"   -> r.v.d["title"]
                [] k = "summary" -> r.v.d["summary"]
                [] k = "content" -> <<"frontmatter">> \o r.v.d["content"]
                [] k = "image_suggestions" ->
                      IF include_images THEN <<"cover">> ELSE <<>>
                [] k = "estimated_reading_time" ->
                      <<estimate_reading_time(r.v.d["content"])>>
                [] OTHER -> <<k>> \o r.v.d["title"]]))

\* optimize_blog_content after optimize_content.
optimize_blog_content(r, content) ==
    IF r.status = "raise" THEN ToolExcept(r.exc)
    ELSE IF r.v.t # "dict" THEN ToolExcept("TypeError")
    ELSE IF ~HasKey(r.v, "content") \/ ~HasKey(r.v, "improvements")
    THEN ToolExcept("KeyError")
    ELSE Return(Dict(
           [k \in {"original_content", "optimized_content", "improvements",
                   "seo_score", "readability_score"} |->
              CASE k = "original_content"  -> content
                [] k = "optimized_content" -> r.v.d["content"]
                [] k = "improvements"      -> r.v.d["improvements"]
                [] OTHER ->
                      IF k \in DOMAIN r.v.d THEN r.v.d[k] ELSE <<"null">>]))

\* generate_blog_outline after generate_outline.
generate_blog_outline(r, topic) ==
    IF r.status = "raise" THEN ToolExcept(r.exc)
    ELSE IF r.v.t # "dict" THEN ToolExcept("TypeError")
    ELSE IF ~HasKey(r.v, "structure") \/ ~HasKey(r.v, "estimated_length")
            \/ ~HasKey(r.v, "key_points")
    THEN ToolExcept("KeyError")
    ELSE Return(Dict(
           [k \in {"topic", "outline", "estimated_length", "key_points",
                   "suggested_resources"} |->
              CASE k = "topic"            -> topic
                [] k = "outline"          -> r.v.d["structure"]
                [] k = "estimated_length" -> r.v.d["estimated_length"]
                [] k = "key_points"       -> r.v.d["key_points"]
                [] OTHER ->
                      IF "resources" \in DOMAIN r.v.d
                      THEN r.v.d["resources"] ELSE <<>>]))

ContentToolOutcome(call, r) ==
    CASE call.name = "create_blog_post"      -> create_blog_post(r, call.ctx)
      [] call.name = "optimize_blog_content" ->
            optimize_blog_content(r, call.content)
      [] call.name = "generate_blog_outline" ->
            generate_blog_outline(r, call.prompt)

\* What a tool is called with: create_blog_post with or without
\* include_images, optimize_blog_content with a content, the outline tool
\* with a topic.
ContentToolCalls ==
    { Op("create_blog_post", <<"topic">>, DEEPSEEK, <<>>, <<>>, b) :
        b \in BOOLEAN }
    \cup { Op("optimize_blog_content", <<>>, DEEPSEEK, c, <<>>, FALSE) :
             c \in Contents }
    \cup { Op("generate_blog_outline", <<"topic">>, DEEPSEEK, <<>>, <<>>, FALSE) }

\* A caller invokes one of the content tools: the task builds its prompt
\* and generate_text is invoked.
CallContentTool ==
    /\ Free
    /\ \E call \in ContentToolCalls :
          /\ op' = call
          /\ AIInvoke(AICall("generate_text", <<TaskOf(call.name)>>, DEEPSEEK),
                      <<>>)
    /\ pc' = "content_tool"
    /\ ret' = NoRet
    /\ FreshTool
    /\ FreshBatch
    /\ UNCHANGED <<cfgVars, auxVars>>

\* generate_text has returned or raised: the task parses, the tool builds
\* its result or lands in its except clause.
ContentToolFinish ==
    /\ pc = "content_tool"
    /\ ai_pc = "done"
    /\ ret' = ContentToolOutcome(
                  op, TaskOutcome(TaskOf(op.name), op.content, ai_ret))
    /\ pc' = "done"
    /\ ai_pc' = "idle"
    /\ UNCHANGED <<cfgVars, auxVars, op, ai_call, ai_ret, net, toolVars, batchVars>>

----------------------------------------------------------------------------
(* The generate_image tool (media_server.py:58-110) with                   *)
(* _optimize_image_prompt (361-396) and _download_and_save_image           *)
(* (398-420).                                                              *)

Styles == {"realistic", "sketch"}

\* style_keywords.get(style, "high quality")
BaseEnhancement(style) ==
    IF style = "realistic" THEN "photorealistic, high quality, detailed"
    ELSE "high quality"

Enhanced(text, style) == text \o <<",", BaseEnhancement(style)>>

ToolResult(req, local_path) ==
    Dict([k \in {"original_prompt", "optimized_prompt", "revised_prompt",
                 "image_url", "local_path", "size", "quality", "style",
                 "generated_at"} |->
            CASE k = "original_prompt"  -> req.prompt
              [] k = "optimized_prompt" -> req.optimized
              [] k = "revised_prompt"   -> req.image.d["revised_prompt"]
              [] k = "image_url"        -> req.image.d["url"]
              [] k = "local_path"       -> <<local_path>>
              [] k = "style"            -> <<req.style>>
              [] OTHER                  -> <<k>>])

\* ai_service.generate_image(prompt=optimized_prompt, ...) is invoked.
ToolGenerate(prompt, style, ctx, optimized, base) ==
    /\ tool_req' = ToolReq(prompt, style, ctx, optimized, NoValue)
    /\ tool_pc' = "img"
    /\ AIInvoke(AICall("generate_image", optimized, <<>>), base)

\* generate_image(request) up to its first suspension: with a blog_context
\* the prompt is first sent to generate_text for optimisation.
ToolInvoke(prompt, style, ctx, base) ==
    /\ tool_ret' = NoValue
    /\ IF ctx
       THEN /\ tool_req' = ToolReq(prompt, style, ctx, <<>>, NoValue)
            /\ tool_pc' = "opt"
            /\ AIInvoke(AICall("generate_text", <<"optimize">> \o prompt,
                               DEEPSEEK), base)
       ELSE ToolGenerate(prompt, style, ctx, Enhanced(prompt, style), base)

\* _optimize_image_prompt: the optimised text, or on any failure (bare
\* except: pass) the original prompt; then the image request.
ToolOptimized ==
    /\ tool_pc = "opt"
    /\ ai_pc = "done"
    /\ ToolGenerate(tool_req.prompt, tool_req.style, tool_req.ctx,
                    Enhanced(IF ai_ret.status = "return"
                             THEN ai_ret.v.l ELSE tool_req.prompt,
                             tool_req.style),
                    net)
    /\ UNCHANGED <<cfgVars, auxVars, pc, op, ret, tool_ret, batchVars>>

\* generate_image has returned or raised: on failure the tool returns
\* {"error": ...}; otherwise it requests the image file.
ToolImage ==
    /\ tool_pc = "img"
    /\ ai_pc = "done"
    /\ ai_pc' = "idle"
    /\ IF ai_ret.status = "raise"
       THEN /\ tool_ret' = ErrorDict(ai_ret.exc)
            /\ tool_pc' = "done"
            /\ UNCHANGED <<tool_req, net>>
       ELSE /\ tool_req' = [tool_req EXCEPT !.image = ai_ret.v]
            /\ tool_pc' = "download"
            /\ net' = Append(net, "GET image_url")
            /\ UNCHANGED tool_ret
    /\ UNCHANGED <<cfgVars, auxVars, pc, op, ret, ai_call, ai_ret, batchVars>>

\* The download answers: saved, or raise_for_status / the write failed.
ToolDownload ==
    /\ tool_pc = "download"
    /\ \E saved \in BOOLEAN :
          tool_ret' = IF saved
                      THEN ToolResult(tool_req, "output/images/1.png")
                      ELSE ErrorDict("HTTPStatusError")
    /\ tool_pc' = "done"
    /\ UNCHANGED <<cfgVars, auxVars, pc, op, ret, aiVars, tool_req, batchVars>>

\* A caller invokes the generate_image tool.
CallTool ==
    /\ Free
    /\ \E prompt \in Prompts, style \in Styles, ctx \in BOOLEAN :
          /\ op' = Op("tool_generate_image", prompt, <<>>, <<>>, <<>>, ctx)
          /\ ToolInvoke(prompt, style, ctx, <<>>)
    /\ pc' = "tool"
    /\ ret' = NoRet
    /\ FreshBatch
    /\ UNCHANGED <<cfgVars, auxVars>>

ToolReturn ==
    /\ pc = "tool"
    /\ tool_pc = "done"
    /\ ret' = Return(tool_ret)
    /\ pc' = "done"
    /\ tool_pc' = "idle"
    /\ UNCHANGED <<cfgVars, auxVars, op, aiVars, tool_req, tool_ret, batchVars>>

----------------------------------------------------------------------------
(* batch_generate_images (media_server.py:230-292).                        *)

\* A list element that is no str: ImageGenerationRequest(prompt=...) raises
\* a validation error on it, inside the loop's try.
NoneValue == <<"<None>">>
IsStr(p) == p # NoneValue

PromptItems == Prompts \cup {NoneValue}

PromptLists == UNION { [1 .. n -> PromptItems] : n \in 0 .. MaxPrompts }

\* Mutant: the entry's index is the 0-based loop index.
ResultEntryZeroBased(idx, prompt, result) ==
    [index |-> idx, prompt |-> prompt, result |-> result]

\* One element of the results list; idx is enumerate's 0-based index.
ResultEntry(idx, prompt, result) ==
    [index |-> idx + 1, prompt |-> prompt, result |-> result]

\* What the loop did to the idx-th prompt (0-based), as a history entry:
\* "start" (generate_image awaited), "end_ok" / "end_error" (it returned an
\* image / an error mapping), "raised" (the try body raised), "record" (the
\* entry was appended), "sleep" (asyncio.sleep awaited).
Event(what, idx) == <<what, idx + 1>>

Ended(result) == IF "error" \in DOMAIN result.d THEN "end_error" ELSE "end_ok"

\* for i, prompt in enumerate(prompts): the index after idx.
NextIndex(idx, n) == idx + 1

\* Mutant: the except clause gives up on the rest of the batch.
AfterExceptionAbort(idx, n) == n

\* The loop's except clause ends normally: the loop goes on.
AfterException(idx, n) == NextIndex(idx, n)

\* Mutant: an error mapping returned by generate_image is not counted.
CountFailureNever(count, result) == count

\* if "error" in result: failed_count += 1
CountFailure(count, result) ==
    IF HasKey(result, "error") THEN count + 1 ELSE count

\* Mutant: the rate is cut to one decimal place instead of rounded.
SuccessRateTruncated(success, total) == (success * 1000) \div total

\* round(x, 1) of success / total * 100, in tenths of a percent.
SuccessRate(success, total) ==
    LET q == (success * 1000) \div total
        r == (success * 1000) % total
    IN  IF 2 * r > total THEN q + 1
        ELSE IF 2 * r < total THEN q
        ELSE IF q % 2 = 0 THEN q ELSE q + 1

Summary(ps, count, res) ==
    Dict([k \in {"total_count", "success_count", "failed_count",
                 "success_rate", "results", "generated_at"} |->
            CASE k = "total_count"   -> <<Len(ps)>>
              [] k = "success_count" -> <<Len(ps) - count>>
              [] k = "failed_count"  -> <<count>>
              [] k = "success_rate"  -> <<SuccessRate(Len(ps) - count, Len(ps))>>
              [] k = "results"       -> res
              [] OTHER               -> <<k>>])

\* Mutant: an empty list is summarised with zero counters and a zero rate.
BatchOutcomeEmptySummary(ps, count, res) ==
    IF Len(ps) = 0
    THEN Dict([k \in {"total_count", "success_count", "failed_count",
                      "success_rate", "results", "generated_at"} |->
                 IF k = "results" THEN <<>> ELSE <<0>>])
    ELSE Summary(ps, count, res)

\* What batch_generate_images returns after the loop: the summary; for an
\* empty list the division by len(prompts) raises ZeroDivisionError and the
\* outer except clause returns {"error": str(e)}.
BatchOutcome(ps, count, res) ==
    IF Len(ps) = 0
    THEN ErrorDict("ZeroDivisionError")
    ELSE Summary(ps, count, res)

\* A caller invokes batch_generate_images(prompts, style).
CallBatch ==
    /\ Free
    /\ \E ps \in PromptLists :
          op' = Op("batch_generate_images", <<>>, <<>>, <<>>, ps, FALSE)
    /\ pc' = "batch"
    /\ ret' = NoRet
    /\ i' = 0
    /\ results' = <<>>
    /\ failed_count' = 0
    /\ events' = <<>>
    /\ net' = <<>>
    /\ FreshAI
    /\ FreshTool
    /\ UNCHANGED <<cfgVars, auxVars>>

\* Loop body, first half: build the request and await generate_image; a
\* validation error goes to the loop's except clause, which records the
\* failure and moves on to the next prompt.
BatchItem ==
    /\ pc = "batch"
    /\ tool_pc = "idle"
    /\ i < Len(op.prompts)
    /\ IF IsStr(op.prompts[i + 1])
       THEN /\ ToolInvoke(op.prompts[i + 1], "realistic", FALSE, net)
            /\ events' = Append(events, Event("start", i))
            /\ UNCHANGED <<i, results, failed_count>>
       ELSE /\ failed_count' = failed_count + 1
            /\ results' = Append(results,
                    ResultEntry(i, op.prompts[i + 1],
                                ErrorDict("ValidationError")))
            /\ events' = events \o <<Event("raised", i), Event("record", i)>>
            /\ i' = AfterException(i, Len(op.prompts))
            /\ UNCHANGED <<aiVars, toolVars>>
    /\ UNCHANGED <<cfgVars, auxVars, pc, op, ret>>

\* Loop body, second half: count a failure, append the entry, and before
\* every prompt but the last suspend for Config.API_DELAY.
BatchRecord ==
    /\ pc = "batch"
    /\ tool_pc = "done"
    /\ tool_pc' = "idle"
    /\ failed_count' = CountFailure(failed_count, tool_ret)
    /\ results' = Append(results, ResultEntry(i, op.prompts[i + 1], tool_ret))
    /\ IF i < Len(op.prompts) - 1
       THEN /\ pc' = "batch_sleep"
            /\ events' = events \o <<Event(Ended(tool_ret), i),
                                     Event("record", i), Event("sleep", i)>>
            /\ UNCHANGED i
       ELSE /\ pc' = "batch"
            /\ events' = events \o <<Event(Ended(tool_ret), i),
                                     Event("record", i)>>
            /\ i' = NextIndex(i, Len(op.prompts))
    /\ UNCHANGED <<cfgVars, auxVars, op, ret, aiVars, tool_req, tool_ret>>

\* asyncio.sleep(Config.API_DELAY) is over: the loop takes the next prompt.
BatchWake ==
    /\ pc = "batch_sleep"
    /\ pc' = "batch"
    /\ i' = NextIndex(i, Len(op.prompts))
    /\ UNCHANGED <<cfgVars, auxVars, op, ret, aiVars, toolVars, results, failed_count,
                   events>>

\* After the loop: the function returns its outcome.
BatchFinish ==
    /\ pc = "batch"
    /\ tool_pc = "idle"
    /\ i = Len(op.prompts)
    /\ ret' = Return(BatchOutcome(op.prompts, failed_count, results))
    /\ pc' = "done"
    /\ UNCHANGED <<cfgVars, auxVars, op, aiVars, toolVars, batchVars>>

----------------------------------------------------------------------------
(* ZolaUtils.generate_slug (utils/zola_utils.py).  A title and a slug are  *)
(* sequences of characters; an ASCII character is written as itself, any   *)
(* other as its code point, "U+535A".                                      *)

LowerLetters ==
    << "a", "b", "c", "d", "e", "f", "g", "h", "i", "j", "k", "l", "m",
       "n", "o", "p", "q", "r", "s", "t", "u", "v", "w", "x", "y", "z" >>

UpperLetters ==
    << "A", "B", "C", "D", "E", "F", "G", "H", "I", "J", "K", "L", "M",
       "N", "O", "P", "Q", "R", "S", "T", "U", "V", "W", "X", "Y", "Z" >>

DigitChars == << "0", "1", "2", "3", "4", "5", "6", "7", "8", "9" >>

Range(s) == { s[n] : n \in DOMAIN s }

\* The characters of the range \u4e00-\u9fff that titles are made of here:
\* those of the keyword table, and U+4F60, which is in no keyword.
CJKChars ==
    { "U+4E3D", "U+4E60", "U+4EBA", "U+4EE3", "U+4F18", "U+4F60",
      "U+5177", "U+5206", "U+5316", "U+5357", "U+535A", "U+53D1",
      "U+5668", "U+5B66", "U+5B9E", "U+5BA2", "U+5DE5", "U+5EA6",
      "U+5F00", "U+6280", "U+6307", "U+6559", "U+667A", "U+672F",
      "U+673A", "U+6790", "U+67B6", "U+6808", "U+6846", "U+6C5F",
      "U+6DF1", "U+76EE", "U+7801", "U+7A0B", "U+7F16", "U+7F72",
      "U+80FD", "U+8BA1", "U+8BBE", "U+8DF5", "U+90E8", "U+9879" }

\* Word characters outside ASCII and outside \u4e00-\u9fff: U+306E is a
\* hiragana letter, U+0130 the capital I with dot above.
OtherWordChars == {"U+306E", "U+0130"}

\* U+0307, the combining dot above, is a mark: no word character.
CombiningDot == "U+0307"

\* \w of a str pattern: a Unicode letter or digit, or the underscore.
IsWord(c) ==
    \/ c \in Range(LowerLetters) \cup Range(UpperLetters) \cup Range(DigitChars)
    \/ c = "_"
    \/ c \in CJKChars \cup OtherWordChars

\* \s of a str pattern: Unicode whitespace, here the space and U+3000, the
\* ideographic space.
SpaceChars == {" ", "U+3000"}

IsSpace(c) == c \in SpaceChars

IsCJK(c) == c \in CJKChars

\* re.sub(r'[^\w\s\-\u4e00-\u9fff]', '', title)
RemoveSpecial(t) ==
    SelectSeq(t, LAMBDA c : IsWord(c) \/ IsSpace(c) \/ c = "-" \/ IsCJK(c))

\* re.sub(<one or more characters of cs>, repl, t), from position n on.
RECURSIVE SubRuns(_, _, _, _)
SubRuns(cs, repl, t, n) ==
    IF n > Len(t) THEN <<>>
    ELSE IF t[n] \in cs
         THEN (IF n > 1 /\ t[n - 1] \in cs THEN <<>> ELSE repl)
              \o SubRuns(cs, repl, t, n + 1)
         ELSE <<t[n]>> \o SubRuns(cs, repl, t, n + 1)

\* re.sub(r'[\s]+', '-', slug)
SpacesToHyphen(t) == SubRuns(SpaceChars, <<"-">>, t, 1)

\* str.lower() of one character: U+0130 lower-cases to two characters, "i"
\* and the combining dot above.
LowerChar(c) ==
    IF c \in Range(UpperLetters)
    THEN <<LowerLetters[CHOOSE n \in DOMAIN UpperLetters : UpperLetters[n] = c]>>
    ELSE IF c = "U+0130" THEN <<"i", CombiningDot>>
    ELSE <<c>>

\* slug.lower()
RECURSIVE lower(_)
lower(t) == IF t = <<>> THEN <<>> ELSE LowerChar(Head(t)) \o lower(Tail(t))

IsHyphen(c) == c = "-"

\* Mutant: runs of hyphens are left as they are.
KeepHyphens(t) == t

\* re.sub(r'-+', '-', slug)
CollapseHyphens(t) == SubRuns({"-"}, <<"-">>, t, 1)

\* slug.strip('-')
RECURSIVE strip(_)
strip(t) ==
    IF t = <<>> THEN <<>>
    ELSE IF Head(t) = "-" THEN strip(Tail(t))
    ELSE IF t[Len(t)] = "-" THEN strip(SubSeq(t, 1, Len(t) - 1))
    ELSE t

\* Lines 89-97: the slug before the pure-Chinese test.
Normalize(title) ==
    strip(CollapseHyphens(lower(SpacesToHyphen(RemoveSpecial(title)))))

\* re.match(r'^[\u4e00-\u9fff\-]+$', slug)
IsPureChinese(slug) ==
    /\ Len(slug) > 0
    /\ \A n \in 1 .. Len(slug) : IsCJK(slug[n]) \/ slug[n] = "-"

\* The dict literal of _chinese_to_slug, in insertion order.
keyword_map ==
    << [keyword |-> <<"A", "I">>,
        english |-> <<"a", "i">>],
       [keyword |-> <<"U+4EBA", "U+5DE5", "U+667A", "U+80FD">>,
        english |-> <<"a", "r", "t", "i", "f", "i", "c", "i", "a", "l", "-", "i", "n", "t", "e", "l", "l", "i", "g", "e", "n", "c", "e">>],
       [keyword |-> <<"U+673A", "U+5668", "U+5B66", "U+4E60">>,
        english |-> <<"m", "a", "c", "h", "i", "n", "e", "-", "l", "e", "a", "r", "n", "i", "n", "g">>],
       [keyword |-> <<"U+6DF1", "U+5EA6", "U+5B66", "U+4E60">>,
        english |-> <<"d", "e", "e", "p", "-", "l", "e", "a", "r", "n", "i", "n", "g">>],
       [keyword |-> <<"U+535A", "U+5BA2">>,
        english |-> <<"b", "l", "o", "g">>],
       [keyword |-> <<"U+6559", "U+7A0B">>,
        english |-> <<"t", "u", "t", "o", "r", "i", "a", "l">>],
       [keyword |-> <<"U+6307", "U+5357">>,
        english |-> <<"g", "u", "i", "d", "e">>],
       [keyword |-> <<"U+5B9E", "U+8DF5">>,
        english |-> <<"p", "r", "a", "c", "t", "i", "c", "e">>],
       [keyword |-> <<"U+6280", "U+672F">>,
        english |-> <<"t", "e", "c", "h", "n", "o", "l", "o", "g", "y">>],
       [keyword |-> <<"U+5F00", "U+53D1">>,
        english |-> <<"d", "e", "v", "e", "l", "o", "p", "m", "e", "n", "t">>],
       [keyword |-> <<"U+7F16", "U+7A0B">>,
        english |-> <<"p", "r", "o", "g", "r", "a", "m", "m", "i", "n", "g">>],
       [keyword |-> <<"U+4EE3", "U+7801">>,
        english |-> <<"c", "o", "d", "e">>],
       [keyword |-> <<"U+9879", "U+76EE">>,
        english |-> <<"p", "r", "o", "j", "e", "c", "t">>],
       [keyword |-> <<"U+5DE5", "U+5177">>,
        english |-> <<"t", "o", "o", "l", "s">>],
       [keyword |-> <<"U+6846", "U+67B6">>,
        english |-> <<"f", "r", "a", "m", "e", "w", "o", "r", "k">>],
       [keyword |-> <<"U+90E8", "U+7F72">>,
        english |-> <<"d", "e", "p", "l", "o", "y", "m", "e", "n", "t">>],
       [keyword |-> <<"U+4F18", "U+5316">>,
        english |-> <<"o", "p", "t", "i", "m", "i", "z", "a", "t", "i", "o", "n">>],
       [keyword |-> <<"U+5206", "U+6790">>,
        english |-> <<"a", "n", "a", "l", "y", "s", "i", "s">>],
       [keyword |-> <<"U+8BBE", "U+8BA1">>,
        english |-> <<"d", "e", "s", "i", "g", "n">>],
       [keyword |-> <<"U+5BA2", "U+6808">>,
        english |-> <<"g", "u", "e", "s", "t", "h", "o", "u", "s", "e">>],
       [keyword |-> <<"U+4E3D", "U+6C5F">>,
        english |-> <<"l", "i", "j", "i", "a", "n", "g">>] >>

\* `keyword in title`: keyword is a substring of title.
Contains(title, keyword) ==
    \E n \in 0 .. Len(title) - Len(keyword) :
        \A m \in 1 .. Len(keyword) : title[n + m] = keyword[m]

\* slug_parts: the english of every entry whose keyword is in the title, in
\* the order of the table.
RECURSIVE SlugParts(_, _)
SlugParts(title, n) ==
    IF n > Len(keyword_map) THEN <<>>
    ELSE (IF Contains(title, keyword_map[n].keyword)
          THEN <<keyword_map[n].english>>
          ELSE <<>>) \o SlugParts(title, n + 1)

\* slug_parts[:3]
Take(parts, n) == SubSeq(parts, 1, IF Len(parts) < n THEN Len(parts) ELSE n)

\* "-".join(parts)
RECURSIVE Join(_)
Join(parts) ==
    IF parts = <<>> THEN <<>>
    ELSE IF Len(parts) = 1 THEN parts[1]
    ELSE parts[1] \o <<"-">> \o Join(Tail(parts))

\* datetime.now().strftime('%Y%m%d') on the day-th day of January 2025.
strftime(day) ==
    <<"2", "0", "2", "5", "0", "1">>
    \o <<DigitChars[(day \div 10) + 1], DigitChars[(day % 10) + 1]>>

DateSlug(day) == <<"p", "o", "s", "t", "-">> \o strftime(day)

\* Mutant: the date is appended whether or not a keyword matched.
_chinese_to_slug_dated(title, day) ==
    IF SlugParts(title, 1) = <<>>
    THEN DateSlug(day)
    ELSE Join(Take(SlugParts(title, 1), 3)) \o <<"-">> \o strftime(day)

_chinese_to_slug(title, day) ==
    IF SlugParts(title, 1) = <<>>
    THEN DateSlug(day)
    ELSE Join(Take(SlugParts(title, 1), 3))

\* generate_slug(title) called on the given day.
generate_slug(title, day) ==
    IF IsPureChinese(Normalize(title))
    THEN _chinese_to_slug(title, day)
    ELSE Normalize(title)

\* The titles generate_slug is called with: every title of at most
\* MaxTitleLen characters over TitleAlphabet, and some longer ones.
TitleAlphabet ==
    { "A", "1", "_", "-", " ", "!", "U+535A", "U+5BA2", "U+4F60",
      "U+306E", "U+0130" }

ShortTitles == UNION { [1 .. n -> TitleAlphabet] : n \in 0 .. MaxTitleLen }

\* "AI" space U+535A U+5BA2 U+6559 U+7A0B: the keywords AI, blog, tutorial.
AIBlogTutorial == <<"A", "I", " ", "U+535A", "U+5BA2", "U+6559", "U+7A0B">>

SampleTitles ==
    { AIBlogTutorial,
      \* blog, tutorial
      <<"U+535A", "U+5BA2", "U+6559", "U+7A0B">>,
      \* technology, development, programming, code: four keywords
      <<"U+6280", "U+672F", "U+5F00", "U+53D1", "U+7F16", "U+7A0B",
        "U+4EE3", "U+7801">>,
      \* artificial intelligence, then guide behind an ideographic space
      <<"U+4EBA", "U+5DE5", "U+667A", "U+80FD", "U+3000", "U+6307", "U+5357">>,
      <<"A", " ", "-", " ", "1">>,
      <<"H", "e", "l", "l", "o", ",", " ", "W", "o", "r", "l", "d", "!">> }

Titles == ShortTitles \cup SampleTitles

\* One call of generate_slug, as a history entry.
SlugCall(title, day) ==
    [title |-> title, date |-> day, slug |-> generate_slug(title, day)]

\* A caller invokes ZolaUtils.generate_slug(title).
CallGenerateSlug ==
    /\ slug_calls = <<>>
    /\ \E title \in Titles : slug_calls' = <<SlugCall(title, today)>>
    /\ UNCHANGED <<today, mainVars, reading_calls, mgmtVars>>

\* The same title is slugged again, on the same or a later day.
CallGenerateSlugAgain ==
    /\ Len(slug_calls) = 1
    /\ slug_calls' = Append(slug_calls, SlugCall(slug_calls[1].title, today))
    /\ UNCHANGED <<today, mainVars, reading_calls, mgmtVars>>

\* The slug just returned is itself passed to generate_slug.
CallGenerateSlugOfSlug ==
    /\ Len(slug_calls) = 1
    /\ slug_calls' = Append(slug_calls, SlugCall(slug_calls[1].slug, today))
    /\ UNCHANGED <<today, mainVars, reading_calls, mgmtVars>>

\* The clock passes midnight.
NextDay ==
    /\ today < MaxDays
    /\ today' = today + 1
    /\ UNCHANGED <<slug_calls, mainVars, reading_calls, mgmtVars>>

----------------------------------------------------------------------------
(* ContentService.estimate_reading_time and suggest_image_positions       *)
(* called on their own (content_service.py:112-166).                       *)

\* The texts a long content is made of: a word; a header marker and a
\* word; two words; five words around an emphasis marker; a lone marker.
Units ==
    { <<"w">>, <<"#", "w">>, <<"w", "w">>,
      <<"w", "w", "*", "w", "w", "w">>, <<"#">> }

\* A Markdown text, character by character: "#", a space, a letter and the
\* line feed, written LF.
TextAlphabet == {"#", " ", "x", "LF"}

ShortMarkdown == UNION { [1 .. n -> TextAlphabet] : n \in 0 .. MaxTextLen }

SampleMarkdown ==
    { \* # x / ## x / text / ### x / ## x
      <<"#", " ", "x", "LF", "#", "#", " ", "x", "LF", "x", "LF",
        "#", "#", "#", " ", "x", "LF", "#", "#", " ", "x">>,
      \* six and seven hashes
      <<"#", "#", "#", "#", "#", "#", " ", "x">>,
      <<"#", "#", "#", "#", "#", "#", "#", " ", "x">> }

Markdown == ShortMarkdown \cup SampleMarkdown

\* \s of the pattern: the space and the line feed.
IsBlank(ch) == ch \in {" ", "LF"}

\* ^ under re.MULTILINE: the start of the text or just after a line feed.
AtLineStart(c, p) == p = 1 \/ c[p - 1] = "LF"

\* The length of the longest run of characters of chars that starts at p.
Run(c, p, chars) ==
    CHOOSE n \in 0 .. Len(c) - p + 1 :
        /\ \A k \in 0 .. n - 1 : c[p + k] \in chars
        /\ p + n <= Len(c) => c[p + n] \notin chars

\* The match of ^(#{1,6})\s+(.+)$ at position p, if any: the hashes must
\* all be taken, \s+ takes as many blanks as leave a character that is no
\* line feed for .+, and .+ runs to the end of that line.
HeaderMatch(c, p) ==
    LET h     == Run(c, p, {"#"})
        w     == Run(c, p + h, {" ", "LF"})
        takes == { j \in 1 .. w : p + h + j <= Len(c) /\ c[p + h + j] # "LF" }
        j     == CHOOSE x \in takes : \A y \in takes : y <= x
        from  == p + h + j
        upto  == from + Run(c, from, {"#", " ", "x"}) - 1
    IN  IF AtLineStart(c, p) /\ h \in 1 .. 6 /\ takes # {}
        THEN [ok |-> TRUE, level |-> h, title |-> SubSeq(c, from, upto),
              end |-> upto]
        ELSE [ok |-> FALSE, level |-> 0, title |-> <<>>, end |-> p]

\* re.findall(r'^(#{1,6})\s+(.+)$', content, re.MULTILINE) from p on.
RECURSIVE findall(_, _)
findall(c, p) ==
    IF p > Len(c) THEN <<>>
    ELSE IF HeaderMatch(c, p).ok
         THEN <<[level |-> HeaderMatch(c, p).level,
                 title |-> HeaderMatch(c, p).title]>>
              \o findall(c, HeaderMatch(c, p).end + 1)
         ELSE findall(c, p + 1)

CoverSuggestion ==
    [position |-> <<"cover">>, title |-> <<"cover-image">>,
     image_type |-> "cover", priority |-> "high"]

HeaderSuggestion(idx, title) ==
    [position |-> <<"after_header", idx>>, title |-> title,
     image_type |-> "illustration", priority |-> "medium"]

\* if level == "##"
WantsImage(level) == level = 2

\* The loop over enumerate(headers), from the n-th header on.
RECURSIVE HeaderSuggestions(_, _)
HeaderSuggestions(headers, n) ==
    IF n > Len(headers) THEN <<>>
    ELSE (IF WantsImage(headers[n].level)
          THEN <<HeaderSuggestion(n - 1, headers[n].title)>>
          ELSE <<>>) \o HeaderSuggestions(headers, n + 1)

suggest_image_positions(content) ==
    <<CoverSuggestion>> \o HeaderSuggestions(findall(content, 1), 1)

\* A caller invokes ContentService.suggest_image_positions(content).
CallSuggestImagePositions ==
    /\ Free
    /\ reading_calls = <<>>
    /\ \E content \in Markdown :
          /\ op' = Op("suggest_image_positions", <<>>, <<>>, content, <<>>, FALSE)
          /\ ret' = Return([ok |-> TRUE, t |-> "list", d |-> NoDict,
                            l |-> suggest_image_positions(content)])
    /\ pc' = "done"
    /\ UNCHANGED <<cfgVars, aiVars, toolVars, batchVars, auxVars>>

\* The content made of reps copies of unit, separated by whitespace.
Repeat(unit, reps) ==
    [k \in 1 .. reps * Len(unit) |-> unit[((k - 1) % Len(unit)) + 1]]

\* One call of estimate_reading_time, as a history entry.
ReadingCall(unit, reps) ==
    [unit |-> unit, reps |-> reps,
     minutes |-> estimate_reading_time(Repeat(unit, reps))]

\* A caller invokes ContentService.estimate_reading_time(content).
CallEstimateReadingTime ==
    /\ Free
    /\ reading_calls = <<>>
    /\ \E unit \in Units, reps \in 0 .. MaxReps :
          reading_calls' = <<ReadingCall(unit, reps)>>
    /\ UNCHANGED <<mainVars, slugVars, mgmtVars>>

\* A second call, on a content that is the first one or an extension of it.
CallEstimateLonger ==
    /\ Free
    /\ Len(reading_calls) = 1
    /\ \E reps \in reading_calls[1].reps .. MaxReps :
          reading_calls' =
              Append(reading_calls, ReadingCall(reading_calls[1].unit, reps))
    /\ UNCHANGED <<mainVars, slugVars, mgmtVars>>

----------------------------------------------------------------------------
(* publish_blog_post and _deploy_site (management_server.py:49-103,        *)
(* 428-465), with ZolaUtils.validate_content and build_site.               *)

\* The frontmatter fence a post must start with.
Fence == <<"+", "+", "+">>

\* What the file at file_path may hold.
PublishContents ==
    { <<>>,
      <<"+", "+">>,
      Fence,
      <<" ">> \o Fence,
      <<"#", " ", "x">>,
      Fence \o <<"x">>,
      Fence \o <<"#", " ", "x">>,
      Fence \o <<"#", "#", " ", "x">> }

\* validate_content: a missing frontmatter is the one issue; a text without
\* a header gets a warning, which does not affect validity.
validate_content(content) ==
    LET issues   == IF ~StartsWith(content, Fence)
                    THEN <<"missing frontmatter">> ELSE <<>>
        warnings == IF ~Contains(content, <<"#", " ">>)
                       /\ ~Contains(content, <<"#", "#", " ">>)
                    THEN <<"add a header structure">> ELSE <<>>
    IN  [valid |-> Len(issues) = 0, issues |-> issues, warnings |-> warnings]

\* PublishRequest, with what the file system holds at file_path: whether the
\* file exists, whether read_text can decode it, and its text.
PublishRequest(exists, readable, content, auto_build, auto_deploy, msg) ==
    [ exists |-> exists, readable |-> readable, content |-> content,
      auto_build |-> auto_build, auto_deploy |-> auto_deploy,
      commit_message |-> msg ]

NoPublishRequest == PublishRequest(FALSE, FALSE, <<>>, FALSE, FALSE, "")

\* commit_message is None (or empty) or a message.
CommitMessages == {"", "fix typo"}

PublishRequests ==
    { PublishRequest(e, r, c, b, d, m) :
        e \in BOOLEAN, r \in BOOLEAN, c \in PublishContents,
        b \in BOOLEAN, d \in BOOLEAN, m \in CommitMessages }

\* What subprocess.run brings back: the child's exit code, or an exception
\* when the program cannot be started.
ExitCodes == {0, 1, 128}

ProcessOutcomes ==
    { [raised |-> FALSE, returncode |-> c] : c \in ExitCodes }
        \cup { [raised |-> TRUE, returncode |-> 0] }

\* build_site: success is exit code 0; an exception is caught and reported
\* as success False.
build_site(outcome) ==
    IF outcome.raised
    THEN [success |-> FALSE, error |-> "OSError"]
    ELSE [success |-> outcome.returncode = 0, return_code |-> outcome.returncode]

\* One entry of the history cmds: a step or command that was started, and
\* whether it succeeded.
Step(name, ok) == [step |-> name, ok |-> ok]

Validate  == <<"validate_content">>
ZolaBuild == <<"zola", "build">>

\* request.commit_message or f"...: {file_path.name}"
CommitMessage(req) ==
    IF req.commit_message = "" THEN "publish: post.md" ELSE req.commit_message

\* _deploy_site's command list.
commands(commit_message) ==
    << <<"git", "add", ".">>,
       <<"git", "commit", "-m", commit_message>>,
       <<"git", "push", "origin", "main">> >>

\* The results mapping once validation has passed.
BaseResults(req) ==
    [k \in {"file_path", "validation", "published_at"} |->
        IF k = "validation" THEN validate_content(req.content) ELSE <<k>>]

\* The outcome of one stretch of the handler: where it stands afterwards
\* and what it returned, if it returned.
Goes(to)    == [pc |-> to, ret |-> NoRet]
Returns(d)  == [pc |-> "done", ret |-> Return(Dict(d))]

\* if request.auto_deploy: ... ; return results
DeployStage(req, res) ==
    IF req.auto_deploy THEN Goes("deploy") ELSE Returns(res)

\* Mutant: a failed build does not end the handler.
AfterBuildGoesOn(req, res, build_result) == DeployStage(req, res)

\* if not build_result["success"]: return the build error.
AfterBuild(req, res, build_result) ==
    IF ~build_result.success
    THEN Returns([k \in {"error", "build_output"} |->
                    IF k = "error" THEN <<"build failed">> ELSE build_result])
    ELSE DeployStage(req, res)

\* The handler up to its first external program.  steps is what it ran.
PublishStart(req) ==
    IF ~req.exists
    THEN [out |-> Returns([k \in {"error"} |-> <<"file does not exist">>]),
          steps |-> <<>>, res |-> NoDict]
    ELSE IF ~req.readable
    THEN [out |-> Returns([k \in {"error"} |-> <<"UnicodeDecodeError">>]),
          steps |-> <<>>, res |-> NoDict]
    ELSE IF ~validate_content(req.content).valid
    THEN [out |-> Returns([k \in {"error", "issues", "warnings"} |->
                    CASE k = "error"  -> <<"validation failed">>
                      [] k = "issues" -> validate_content(req.content).issues
                      [] OTHER        -> validate_content(req.content).warnings]),
          steps |-> <<Step(Validate, FALSE)>>, res |-> NoDict]
    ELSE [out |-> IF req.auto_build THEN Goes("build")
                  ELSE DeployStage(req, BaseResults(req)),
          steps |-> <<Step(Validate, TRUE)>>, res |-> BaseResults(req)]

\* A caller invokes the publish_blog_post tool.
CallPublish ==
    /\ Free
    /\ \E req \in PublishRequests :
          /\ pub_req' = req
          /\ op' = Op("publish_blog_post", <<>>, <<>>, req.content, <<>>, FALSE)
          /\ pc' = PublishStart(req).out.pc
          /\ ret' = PublishStart(req).out.ret
          /\ cmds' = PublishStart(req).steps
          /\ pub_results' = PublishStart(req).res
    /\ deploy_results' = <<>>
    /\ UNCHANGED <<cfgVars, aiVars, toolVars, batchVars, slugVars, reading_calls>>

\* zola build has ended (or could not be started).
BuildDone ==
    /\ pc = "build"
    /\ \E outcome \in ProcessOutcomes :
          LET build_result == build_site(outcome)
              res == pub_results @@ [k \in {"build_result"} |-> build_result]
              out == AfterBuild(pub_req, res, build_result)
          IN  /\ cmds' = Append(cmds, Step(ZolaBuild, build_result.success))
              /\ pub_results' = res
              /\ pc' = out.pc
              /\ ret' = out.ret
    /\ UNCHANGED <<cfgVars, op, aiVars, toolVars, batchVars, slugVars,
                   reading_calls, pub_req, deploy_results>>

\* Mutant: the loop goes on to the next command whatever the exit code.
AfterCommandNoBreak(returncode, k, n) == k + 1

\* The command index the loop goes to after command k of n: past the end
\* on a non-zero exit (break).
AfterCommand(returncode, k, n) ==
    IF returncode # 0 THEN n + 1 ELSE k + 1

RECURSIVE AllSuccess(_)
AllSuccess(rs) ==
    IF rs = <<>> THEN TRUE ELSE rs[1].success /\ AllSuccess(Tail(rs))

\* _deploy_site's return after the loop.
DeployReturn(commit_message, rs) ==
    [ success |-> AllSuccess(rs), commit_message |-> commit_message,
      commands |-> rs ]

\* One git command of _deploy_site has ended (or could not be started);
\* when the loop is over, _deploy_site returns and publish_blog_post
\* returns its results with the deploy result in them.
GitDone ==
    /\ pc = "deploy"
    /\ \E outcome \in ProcessOutcomes :
          LET msg  == CommitMessage(pub_req)
              k    == Len(deploy_results) + 1
              cmd  == commands(msg)[k]
              rs   == Append(deploy_results,
                             [command |-> cmd,
                              success |-> outcome.returncode = 0])
              next == AfterCommand(outcome.returncode, k, Len(commands(msg)))
              deployed(result) ==
                  pub_results @@ [key \in {"deploy_result"} |-> result]
          IN  IF outcome.raised
              THEN /\ cmds' = Append(cmds, Step(cmd, FALSE))
                   /\ deploy_results' = deploy_results
                   /\ pub_results' =
                          deployed([success |-> FALSE, error |-> "OSError"])
                   /\ pc' = "done"
                   /\ ret' = Return(Dict(pub_results'))
              ELSE /\ cmds' = Append(cmds, Step(cmd, outcome.returncode = 0))
                   /\ deploy_results' = rs
                   /\ IF next > Len(commands(msg))
                      THEN /\ pub_results' = deployed(DeployReturn(msg, rs))
                           /\ pc' = "done"
                           /\ ret' = Return(Dict(pub_results'))
                      ELSE /\ pc' = "deploy"
                           /\ UNCHANGED <<ret, pub_results>>
    /\ UNCHANGED <<cfgVars, op, aiVars, toolVars, batchVars, slugVars,
                   reading_calls, pub_req>>

----------------------------------------------------------------------------
(* The specification.                                                      *)

\* The four server modules, each with its own FastMCP instance `mcp`.
Servers == {"content", "guesthouse", "media", "management"}

\* The functions each module decorates with @mcp.tool(), registered under
\* the function's name when the module is imported.
ContentTools ==
    {"create_blog_post", "optimize_blog_content", "generate_blog_outline",
     "save_blog_post", "analyze_blog_performance"}

GuesthouseTools ==
    {"design_guesthouse_space", "create_marketing_content",
     "integrate_cultural_elements", "generate_activity_plan"}

MediaTools ==
    {"generate_image", "generate_blog_image", "optimize_image",
     "batch_generate_images", "analyze_image_content"}

ManagementTools ==
    {"publish_blog_post", "build_site", "serve_development_site",
     "backup_blog", "analyze_site", "manage_static_files",
     "get_blog_statistics"}

RegisteredTools(server) ==
    CASE server = "content" -> ContentTools
      [] server = "guesthouse" -> GuesthouseTools
      [] server = "media" -> MediaTools
      [] server = "management" -> ManagementTools

\* The name tests/test_servers.py asserts to be among each server's tools.
TestLooksUp(server) ==
    CASE server = "content" -> "generate_blog_post"
      [] server = "guesthouse" -> "design_guesthouse"
      [] server = "media" -> "generate_image"
      [] server = "management" -> "analyze_blog_performance"

\* The state after import: Config read from the environment and the
\* module-level AIService constructed.
Init ==
    /\ \E openai_key \in BOOLEAN, azure_cfg \in BOOLEAN,
          ctor_raises \in {"none", "openai", "azure"} :
          /\ openai_client = _init_clients(openai_key, azure_cfg, ctor_raises).openai
          /\ azure_client = _init_clients(openai_key, azure_cfg, ctor_raises).azure
          /\ init_logged = _init_clients(openai_key, azure_cfg, ctor_raises).logged
    /\ deepseek_key \in BOOLEAN
    /\ tools = [server \in Servers |-> RegisteredTools(server)]
    /\ pc = "idle"
    /\ op = NoOp
    /\ ret = NoRet
    /\ ai_pc = "idle"
    /\ ai_call = NoCall
    /\ ai_ret = NoRet
    /\ net = <<>>
    /\ tool_pc = "idle"
    /\ tool_req = NoReq
    /\ tool_ret = NoValue
    /\ i = 0
    /\ results = <<>>
    /\ failed_count = 0
    /\ events = <<>>
    /\ today = 1
    /\ slug_calls = <<>>
    /\ reading_calls = <<>>
    /\ cmds = <<>>
    /\ pub_req = NoPublishRequest
    /\ pub_results = NoDict
    /\ deploy_results = <<>>

Next ==
    \/ CallGenerateText
    \/ CallGenerateImage
    \/ CallAnalyzeImage
    \/ CallTextHelper
    \/ AIReturn
    \/ ProviderReply
    \/ CallTask
    \/ TaskFinish
    \/ CallContentTool
    \/ ContentToolFinish
    \/ CallTool
    \/ ToolOptimized
    \/ ToolImage
    \/ ToolDownload
    \/ ToolReturn
    \/ CallBatch
    \/ BatchItem
    \/ BatchRecord
    \/ BatchWake
    \/ BatchFinish

Spec == Init /\ [][Next]_vars

\* generate_slug on its own: ZolaUtils does not use the AI service, so its
\* configuration is held at one value (no key in the environment).
SlugInit ==
    /\ Init
    /\ ~deepseek_key /\ ~openai_client /\ ~azure_client /\ ~init_logged

SlugNext ==
    \/ CallGenerateSlug
    \/ CallGenerateSlugAgain
    \/ CallGenerateSlugOfSlug
    \/ NextDay

SlugSpec == SlugInit /\ [][SlugNext]_vars

\* The ContentService helpers that call no provider, on their own.
UtilNext ==
    \/ CallEstimateReadingTime
    \/ CallEstimateLonger
    \/ CallSuggestImagePositions

UtilSpec == SlugInit /\ [][UtilNext]_vars

\* The management server's publish_blog_post, which uses no provider.
PublishNext ==
    \/ CallPublish
    \/ BuildDone
    \/ GitDone

PublishSpec == SlugInit /\ [][PublishNext]_vars

----------------------------------------------------------------------------
(* Properties.                                                             *)

TextProviderConfigured  == deepseek_key \/ openai_client
ImageProviderConfigured == azure_client \/ openai_client

\* C1: with no DeepSeek key and no OpenAI client, AIService.generate_text
\* ends, for every prompt and model name, in a configuration failure raised
\* to the caller, and no outbound request is issued.
C1_GenerateTextUnconfigured ==
    (op.name = "generate_text" /\ ~TextProviderConfigured) =>
        /\ net = <<>>
        /\ ai_pc # "await"
        /\ IsConfigFailure(ai_ret)
        /\ pc = "done" => ret = ai_ret

C1_Witness ==
    /\ op.name = "generate_text"
    /\ ~TextProviderConfigured
    /\ StartsWith(op.model, GPT)
    /\ pc = "done"
    /\ IsConfigFailure(ret)

\* C2: with neither an Azure nor an OpenAI client, AIService.generate_image
\* fails with a configuration error and issues no network call; wherever it
\* is invoked from, it sends no image request.
C2_GenerateImageUnconfigured ==
    /\ (op.name = "generate_image" /\ ~ImageProviderConfigured) =>
          /\ net = <<>>
          /\ ai_pc # "await"
          /\ IsConfigFailure(ai_ret)
          /\ pc = "done" => ret = ai_ret
    /\ (ai_call.fn = "generate_image" /\ ~ImageProviderConfigured) =>
          /\ ai_pc # "await"
          /\ IsConfigFailure(ai_ret)
          /\ \A n \in 1 .. Len(net) :
                net[n] \notin {"azure images.generate", "openai images.generate"}

C2_Witness ==
    /\ op.name = "generate_image"
    /\ ~ImageProviderConfigured
    /\ deepseek_key
    /\ pc = "done"
    /\ IsConfigFailure(ret)

\* C3: generate_text fails with a configuration error only when no
\* text-capable provider is configured at all: if the requested provider is
\* not configured but another one is, it falls back to that one.
C3_FallbackToConfiguredProvider ==
    (op.name = "generate_text" /\ pc = "done" /\ TextProviderConfigured) =>
        ~IsConfigFailure(ret)

\* C4: in each of the four ContentService tasks a failed generate_text call
\* ends the task with that same failure; no success value is substituted.
C4_TaskPropagatesAIFailure ==
    (op.name \in Tasks /\ pc = "done" /\ ai_ret.status = "raise") =>
        ret = ai_ret

\* A task's generate_text call returned a response text.
TextReturned == op.name \in Tasks /\ ai_ret.status = "return"

\* C5: the four response parsers never raise: for every response text each
\* returns a value, and a task that got a response returns one too.
C5_ParsersNeverRaise ==
    TextReturned =>
        /\ ~_parse_content_response(ai_ret.v.l).raised
        /\ ~_parse_optimization_response(ai_ret.v.l).raised
        /\ ~_parse_outline_response(ai_ret.v.l).raised
        /\ ~_parse_analysis_response(ai_ret.v.l).raised
        /\ pc = "done" => ret.status = "return"

C5_Witness ==
    /\ TextReturned
    /\ op.name = "generate_outline"
    /\ pc = "done"
    /\ ~json_loads(ai_ret.v.l).ok
    /\ Len(ai_ret.v.l) > 0
    /\ ret.status = "return"

RequiredKeys(task) ==
    CASE task = "generate_blog_content" -> {"title", "summary", "content"}
      [] task = "optimize_content"      -> {"content", "improvements"}
      [] task = "generate_outline"      ->
            {"structure", "estimated_length", "key_points"}
      [] OTHER                          -> {}

\* C6: for every response text the value a task returns holds every key its
\* kind requires.
C6_RequiredKeysPresent ==
    (op.name \in Tasks /\ pc = "done" /\ ret.status = "return") =>
        \A k \in RequiredKeys(op.name) : HasKey(ret.v, k)

DecodeFailed == TextReturned /\ ~json_loads(ai_ret.v.l).ok

\* Some field of the dict v holds the text r.
CarriesText(v, r) == \E k \in DOMAIN v.d : v.d[k] = r

\* The fields of v other than `content` are those of the fallback for the
\* empty response: they do not depend on the response.
FixedBut(v, ref, skip) ==
    /\ v.t = "dict"
    /\ DOMAIN v.d = DOMAIN ref.d
    /\ \A k \in DOMAIN v.d \ skip : v.d[k] = ref.d[k]

\* The parser a task applies to its response.
ParseFor(task, r) ==
    CASE task = "generate_blog_content" -> _parse_content_response(r)
      [] task = "optimize_content"      -> _parse_optimization_response(r)
      [] task = "generate_outline"      -> _parse_outline_response(r)
      [] OTHER                          -> _parse_analysis_response(r)

\* C7 (as stated): on a decode failure the fallback of every task kind
\* carries the original response text in one of its fields.
C7_EveryFallbackCarriesResponse ==
    (DecodeFailed /\ pc = "done") =>
        CarriesText(ParseFor(op.name, ai_ret.v.l).v, ai_ret.v.l)

\* C7 (amended): on a decode failure the content and optimization fallbacks
\* carry the original response text unchanged in `content` and fixed
\* placeholders elsewhere; the outline and analysis fallbacks consist of
\* fixed placeholders only; generate_blog_content, optimize_content and
\* generate_outline return exactly that fallback.
C7_FallbackShape ==
    DecodeFailed =>
        /\ _parse_content_response(ai_ret.v.l).v.d["content"] = ai_ret.v.l
        /\ _parse_optimization_response(ai_ret.v.l).v.d["content"] = ai_ret.v.l
        /\ FixedBut(_parse_content_response(ai_ret.v.l).v,
                    _parse_content_response(<<>>).v, {"content"})
        /\ FixedBut(_parse_optimization_response(ai_ret.v.l).v,
                    _parse_optimization_response(<<>>).v, {"content"})
        /\ FixedBut(_parse_outline_response(ai_ret.v.l).v,
                    _parse_outline_response(<<>>).v, {})
        /\ FixedBut(_parse_analysis_response(ai_ret.v.l).v,
                    _parse_analysis_response(<<>>).v, {})
        /\ (pc = "done" /\ op.name = "generate_blog_content") =>
              ret = Return(_parse_content_response(ai_ret.v.l).v)
        /\ (pc = "done" /\ op.name = "optimize_content") =>
              ret = Return(_parse_optimization_response(ai_ret.v.l).v)
        /\ (pc = "done" /\ op.name = "generate_outline") =>
              ret = Return(_parse_outline_response(ai_ret.v.l).v)

C7_Witness ==
    /\ DecodeFailed
    /\ op.name = "generate_blog_content"
    /\ pc = "done"
    /\ Len(ai_ret.v.l) > 1
    /\ ret.v.d["content"] = ai_ret.v.l
    /\ ret.v.d["title"] = <<"generated-post">>

Batch == op.name = "batch_generate_images"

Happened(what, k) == \E n \in 1 .. Len(events) : events[n] = <<what, k>>

\* What became of the k-th prompt (1-based), from the history.
ItemFailed(k) == Happened("end_error", k) \/ Happened("raised", k)
ItemOk(k)     == Happened("end_ok", k)

ErrorEntries(res) ==
    { k \in 1 .. Len(res) : HasKey(res[k].result, "error") }

\* C8: for a non-empty prompt list the summary satisfies success_count +
\* failed_count = total_count = len(prompts), holds exactly one result entry
\* per prompt, and failed_count is the number of entries holding a failure.
C8_BatchCounts ==
    (Batch /\ pc = "done" /\ Len(op.prompts) > 0) =>
        /\ ret.status = "return"
        /\ ~HasKey(ret.v, "error")
        /\ ret.v.d["total_count"][1] = Len(op.prompts)
        /\ ret.v.d["success_count"][1] + ret.v.d["failed_count"][1]
              = ret.v.d["total_count"][1]
        /\ Len(ret.v.d["results"]) = Len(op.prompts)
        /\ \A k \in 1 .. Len(op.prompts) :
              ret.v.d["results"][k].prompt = op.prompts[k]
        /\ ret.v.d["failed_count"][1]
              = Cardinality(ErrorEntries(ret.v.d["results"]))

C8_Witness ==
    /\ Batch
    /\ pc = "done"
    /\ Len(op.prompts) = 3
    /\ ret.v.d["failed_count"][1] = 2
    /\ Happened("end_error", 1)
    /\ Happened("raised", 2)
    /\ Happened("end_ok", 3)

\* C9: a failure or exception on an item is recorded in that item's slot
\* and every later item is still processed; a batch of 3 in which only
\* item 2 fails yields total 3, succeeded 2, failed 1, the failure in slot 2
\* and successful results in slots 1 and 3.
C9_PartialFailureIsolation ==
    Batch =>
        /\ \A k \in 1 .. Len(results) :
              /\ results[k].index = k
              /\ HasKey(results[k].result, "error") <=> ItemFailed(k)
              /\ ~HasKey(results[k].result, "error") <=> ItemOk(k)
        /\ pc = "done" => Len(results) = Len(op.prompts)
        /\ ( /\ pc = "done"
             /\ Len(op.prompts) = 3
             /\ ItemOk(1) /\ ItemFailed(2) /\ ItemOk(3) ) =>
              /\ ret.v.d["total_count"] = <<3>>
              /\ ret.v.d["success_count"] = <<2>>
              /\ ret.v.d["failed_count"] = <<1>>
              /\ ErrorEntries(ret.v.d["results"]) = {2}
              /\ ret.v.d["results"][1].result.d["local_path"]
                    = <<"output/images/1.png">>
              /\ ret.v.d["results"][3].result.d["local_path"]
                    = <<"output/images/1.png">>

C9_Witness ==
    /\ Batch
    /\ pc = "done"
    /\ Len(op.prompts) = 3
    /\ ItemOk(1) /\ Happened("raised", 2) /\ ItemOk(3)
    /\ ret.v.d["failed_count"] = <<1>>

Starts  == SelectSeq(events, LAMBDA e : e[1] = "start")
Ends    == SelectSeq(events, LAMBDA e : e[1] \in {"end_ok", "end_error"})
Records == SelectSeq(events, LAMBDA e : e[1] = "record")

\* C10: prompts are processed strictly in input order and one at a time:
\* the call for an item starts only after every earlier item was recorded,
\* at most one generation call is outstanding, and the k-th result entry
\* carries index k and the k-th prompt.
C10_SequentialInOrder ==
    Batch =>
        /\ \A k \in 1 .. Len(results) :
              /\ results[k].index = k
              /\ results[k].prompt = op.prompts[k]
        /\ \A n \in 1 .. Len(Records) : Records[n][2] = n
        /\ Len(Records) = Len(results)
        /\ Len(Starts) - Len(Ends) \in {0, 1}
        /\ Len(Starts) - Len(Ends) = 1 <=> tool_pc # "idle"
        /\ \A n \in 1 .. Len(events) :
              events[n][1] = "start" =>
                 /\ \A j \in 1 .. events[n][2] - 1 :
                       \E m \in 1 .. n - 1 : events[m] = <<"record", j>>
                 /\ \A m \in 1 .. n - 1 : events[m][2] < events[n][2]

C10_Witness ==
    /\ Batch
    /\ pc = "done"
    /\ op.prompts = << <<"p2">>, <<"p1">>, <<"p2">> >>
    /\ Len(Starts) = 3
    /\ results[2].index = 2
    /\ results[2].prompt = <<"p1">>

\* The k-th prompt (1-based) was taken up by the loop.
Began(k) == Happened("start", k) \/ Happened("raised", k)

Sleeps(k) == Len(SelectSeq(events, LAMBDA e : e = <<"sleep", k>>))

\* C11: between the end of every item and the start of the next there is
\* exactly one suspension of Config.API_DELAY, whether the item succeeded,
\* returned a failure or raised; there is none after the last item.
C11_OneDelayBetweenItems ==
    Batch =>
        /\ \A k \in 1 .. Len(op.prompts) - 1 : Began(k + 1) => Sleeps(k) = 1
        /\ Sleeps(Len(op.prompts)) = 0

\* success_rate is in tenths of a percent; n = total_count, s = success_count.
\* The rate is the tenth nearest to the exact value x (given as scale * s / n).
NearestTenth(rate, scale, s, n) ==
    LET d == rate * n - scale * s
    IN  2 * (IF d < 0 THEN 0 - d ELSE d) <= n

C13_EmptyBatchIsError ==
    (Batch /\ Len(op.prompts) = 0) =>
        /\ tool_pc = "idle" /\ ai_pc = "idle"
        /\ pc # "batch_sleep"
        /\ events = <<>>
        /\ net = <<>>
        /\ results = <<>>
        /\ pc = "done" =>
              /\ ret.status = "return"
              /\ HasKey(ret.v, "error")
              /\ DOMAIN ret.v.d = {"error"}

C13_Witness ==
    /\ Batch
    /\ pc = "done"
    /\ op.prompts = <<>>
    /\ ret = Return(ErrorDict("ZeroDivisionError"))

\* The slugs returned so far.
Slugs == { slug_calls[n].slug : n \in 1 .. Len(slug_calls) }

\* C14: generate_slug never returns the empty string, for any title,
\* including the empty title and titles made only of punctuation,
\* whitespace or hyphens.
C14_SlugNeverEmpty == \A s \in Slugs : s # <<>>

SlugChars == Range(LowerLetters) \cup Range(DigitChars) \cup {"-"}

\* C15: every slug returned by generate_slug consists only of ASCII
\* lowercase letters, digits and hyphens, also for titles that mix Latin and
\* non-Latin characters or contain underscores.
C15_SlugAsciiOnly == \A s \in Slugs : Range(s) \subseteq SlugChars

\* The call took the keyword-table / date path.
TookTablePath(c) == IsPureChinese(Normalize(c.title))

\* C16: no slug returned by generate_slug contains two consecutive hyphens
\* or starts or ends with a hyphen, on the direct normalization path and on
\* the keyword-table / date path alike.
C16_NoStrayHyphens ==
    \A s \in Slugs :
        /\ s # <<>> => (s[1] # "-" /\ s[Len(s)] # "-")
        /\ \A n \in 1 .. Len(s) - 1 : ~(s[n] = "-" /\ s[n + 1] = "-")

C16_Witness ==
    /\ Len(slug_calls) = 2
    /\ TookTablePath(slug_calls[1])
    /\ Contains(slug_calls[1].title, <<"U+3000">>)
    /\ slug_calls[2].title = slug_calls[1].slug
    /\ ~TookTablePath(slug_calls[2])
    /\ Len(SelectSeq(slug_calls[2].slug, IsHyphen)) = 2

\* C17: generate_slug is idempotent: a slug passed to generate_slug on the
\* same date comes back unchanged.
C17_Idempotent ==
    ( /\ Len(slug_calls) = 2
      /\ slug_calls[2].title = slug_calls[1].slug
      /\ slug_calls[2].date = slug_calls[1].date ) =>
        slug_calls[2].slug = slug_calls[1].slug

\* C18 (as stated): two calls with the same title return the same slug no
\* matter when each call is made.
C18_SameTitleSameSlug ==
    (Len(slug_calls) = 2 /\ slug_calls[2].title = slug_calls[1].title) =>
        slug_calls[2].slug = slug_calls[1].slug

NoKeywordIn(title) ==
    \A n \in DOMAIN keyword_map : ~Contains(title, keyword_map[n].keyword)

\* The title's slug is post-<date>.
TakesDateFallback(title) ==
    IsPureChinese(Normalize(title)) /\ NoKeywordIn(title)

\* C18 (amended): two calls with the same title return the same slug when
\* made on the same date, and on any dates when the title does not take the
\* date fallback; a title that takes it yields post-<date of the call>,
\* which differs between two dates.
C18_SameSlugButDateFallback ==
    (Len(slug_calls) = 2 /\ slug_calls[2].title = slug_calls[1].title) =>
        /\ ( \/ slug_calls[2].date = slug_calls[1].date
             \/ ~TakesDateFallback(slug_calls[1].title) ) =>
              slug_calls[2].slug = slug_calls[1].slug
        /\ TakesDateFallback(slug_calls[1].title) =>
              /\ slug_calls[1].slug = DateSlug(slug_calls[1].date)
              /\ slug_calls[2].slug = DateSlug(slug_calls[2].date)
              /\ slug_calls[2].date # slug_calls[1].date =>
                    slug_calls[2].slug # slug_calls[1].slug

C18_Witness ==
    /\ Len(slug_calls) = 2
    /\ slug_calls[1].title = <<"U+535A", "U+5BA2">>
    /\ slug_calls[2].title = slug_calls[1].title
    /\ slug_calls[1].date = 1
    /\ slug_calls[2].date = 2
    /\ slug_calls[2].slug = <<"b", "l", "o", "g">>

\* C19: the title "AI" space U+535A U+5BA2 U+6559 U+7A0B, whose keywords are
\* AI -> ai, U+535A U+5BA2 -> blog and U+6559 U+7A0B -> tutorial, yields the
\* slug ai-blog-tutorial.
C19_ScenarioSlug ==
    \A n \in 1 .. Len(slug_calls) :
        slug_calls[n].title = AIBlogTutorial =>
            slug_calls[n].slug =
                <<"a", "i", "-", "b", "l", "o", "g", "-",
                  "t", "u", "t", "o", "r", "i", "a", "l">>

\* A character of a non-Latin script: an ideograph or a hiragana letter.
IsNonLatinScript(c) == c \in CJKChars \cup {"U+306E"}

\* No Latin letter or digit survived normalization.
NonLatinOnly(slug) ==
    /\ Len(slug) > 0
    /\ \A n \in 1 .. Len(slug) : IsNonLatinScript(slug[n]) \/ slug[n] = "-"

\* The entries of the table occurring in the title, and the first 3 of them.
Matched(title) ==
    { n \in DOMAIN keyword_map : Contains(title, keyword_map[n].keyword) }

FirstMatched(title) ==
    { n \in Matched(title) :
        Cardinality({ m \in Matched(title) : m < n }) < 3 }

\* The Latin values of the first 3 matched entries in table order, joined by
\* single hyphens; post-<date> when there is none.
TableSlug(title, day) ==
    IF Matched(title) = {} THEN DateSlug(day)
    ELSE LET idx == FirstMatched(title)
             ord == CHOOSE f \in [1 .. Cardinality(idx) -> idx] :
                        \A a, b \in DOMAIN f : a < b => f[a] < f[b]
         IN  Join([k \in DOMAIN ord |-> keyword_map[ord[k]].english])

\* C20: whenever no Latin letter or digit survives normalization of the
\* title, generate_slug returns the Latin values of the table entries
\* occurring in the title, in table order, at most the first 3, joined by
\* single hyphens, or post-<current date> if no entry occurs in it.
C20_NonLatinUsesTable ==
    \A n \in 1 .. Len(slug_calls) :
        NonLatinOnly(Normalize(slug_calls[n].title)) =>
            slug_calls[n].slug
                = TableSlug(slug_calls[n].title, slug_calls[n].date)

\* What remains of C20 in the code: the same, for a normalized title made
\* only of characters U+4E00 .. U+9FFF and hyphens.
ChineseUsesTable ==
    \A n \in 1 .. Len(slug_calls) :
        TookTablePath(slug_calls[n]) =>
            slug_calls[n].slug
                = TableSlug(slug_calls[n].title, slug_calls[n].date)

\* The whitespace-delimited tokens left of a call's content once the
\* formatting markers are removed.
Tokens(c) == c.reps * Cardinality({k \in DOMAIN c.unit : c.unit[k] \notin MarkerToks})

\* C21 (as stated): for n tokens estimate_reading_time returns
\* max(1, ceil(n / 200)).
C21_RoundedUp ==
    \A k \in 1 .. Len(reading_calls) :
        reading_calls[k].minutes
            = (IF Tokens(reading_calls[k]) = 0 THEN 1
               ELSE (Tokens(reading_calls[k]) + 199) \div 200)

Dist(a, b) == IF a < b THEN b - a ELSE a - b

\* C21 (amended): for n tokens estimate_reading_time returns
\* max(1, round(n / 200)), the quotient rounded to the nearest integer with
\* a tie going to the even one: 1 up to 299 tokens, 2 for 300 up to 500.
C21_RoundedToNearest ==
    \A k \in 1 .. Len(reading_calls) :
        LET n == Tokens(reading_calls[k])
            m == reading_calls[k].minutes
        IN  /\ n <= 100 => m = 1
            /\ n > 100 =>
                  /\ Dist(200 * m, n) <= 100
                  /\ Dist(200 * m, n) = 100 => m % 2 = 0

C21_Witness ==
    /\ Len(reading_calls) = 2
    /\ Tokens(reading_calls[1]) = 205
    /\ reading_calls[1].minutes = 1
    /\ Tokens(reading_calls[2]) = 500
    /\ reading_calls[2].minutes = 2

\* C22: estimate_reading_time never decreases when the token count grows,
\* and its result is at least 1, also for empty content.
C22_MonotoneAtLeastOne ==
    /\ \A k \in 1 .. Len(reading_calls) : reading_calls[k].minutes >= 1
    /\ Len(reading_calls) = 2 =>
          ( Tokens(reading_calls[1]) <= Tokens(reading_calls[2]) =>
                reading_calls[1].minutes <= reading_calls[2].minutes )

C22_Witness ==
    /\ Len(reading_calls) = 2
    /\ reading_calls[1].reps = 0
    /\ reading_calls[1].minutes = 1
    /\ Tokens(reading_calls[2]) = 300
    /\ reading_calls[2].minutes = 2

\* The last position of the line that position p lies on.
LineEnd(c, p) == p + Run(c, p, {"#", " ", "x"}) - 1

\* Position p starts a second-level header: a line made of exactly two
\* hashes, at least one space and a title of at least one character.
IsHeader2(c, p) ==
    /\ AtLineStart(c, p)
    /\ Run(c, p, {"#"}) = 2
    /\ p + 2 <= Len(c) /\ c[p + 2] = " "
    /\ LineEnd(c, p) >= p + 3

\* Its title: what follows the spaces, or the last space of a blank title.
Header2Title(c, p) ==
    LET from == p + 2 + Run(c, p + 2, {" "})
    IN  IF from > LineEnd(c, p) THEN <<" ">>
        ELSE SubSeq(c, from, LineEnd(c, p))

\* The titles of the second-level headers from position p on, in order.
RECURSIVE Header2Titles(_, _)
Header2Titles(c, p) ==
    IF p > Len(c) THEN <<>>
    ELSE (IF IsHeader2(c, p) THEN <<Header2Title(c, p)>> ELSE <<>>)
         \o Header2Titles(c, p + 1)

\* C23: suggest_image_positions returns the cover suggestion followed by
\* exactly one suggestion per second-level header, in document order, and
\* none for a header of another level; the cover alone when the content has
\* no second-level header.
C23_CoverThenOnePerHeader2 ==
    (op.name = "suggest_image_positions" /\ pc = "done") =>
        /\ ret.v.l[1] = CoverSuggestion
        /\ [k \in 1 .. Len(ret.v.l) - 1 |-> ret.v.l[k + 1].title]
              = Header2Titles(op.content, 1)
        /\ \A k \in 2 .. Len(ret.v.l) : ret.v.l[k].image_type = "illustration"

\* C24: an invocation of generate_text, generate_image or analyze_image
\* issues at most one provider request; after a non-success status, a
\* malformed response or a timeout it fails without sending a second one.
C24_OneRequestPerInvocation ==
    (op.name \in {"generate_text", "generate_image", "analyze_image"}) =>
        /\ Len(net) <= 1
        /\ ai_ret.status = "raise" =>
              /\ ai_pc # "await"
              /\ pc = "done" => ret = ai_ret
        /\ (ai_ret.status = "raise" /\ ~IsConfigFailure(ai_ret)
               /\ op.name # "analyze_image") => Len(net) = 1

C24_Witness ==
    /\ op.name = "analyze_image"
    /\ pc = "done"
    /\ ret = Raise("TimeoutException")
    /\ Len(net) = 1

AIMethods ==
    {"generate_text", "generate_image", "analyze_image"} \cup TextHelpers

\* C25: AIService never swallows an error: a failure while the provider
\* clients are constructed, or while one of its methods runs, reaches the
\* caller as a failure; none is only logged and dropped or replaced by a
\* success value.
C25_NoErrorSwallowed ==
    /\ ~init_logged
    /\ (op.name \in AIMethods /\ pc = "done" /\ ai_ret.status = "raise") =>
          ret = ai_ret

\* What remains of C25 in the code: the methods let every failure pass.
MethodsPropagate ==
    (op.name \in AIMethods /\ pc = "done" /\ ai_ret.status = "raise") =>
        ret = ai_ret

\* C26: every server registers the tool its test looks up: the content
\* server "generate_blog_post", the guesthouse server "design_guesthouse",
\* the media server "generate_image" and the management server
\* "analyze_blog_performance".
C26_TestedToolsRegistered ==
    \A server \in Servers : TestLooksUp(server) \in tools[server]

\* C27: the generate_image tool, asked for an image while no image provider
\* is configured, ends in a configuration error without any outbound call,
\* also when the request carries a blog context and a text provider is
\* configured.
C27_NoOutboundCallWithoutImageProvider ==
    (op.name = "tool_generate_image" /\ ~ImageProviderConfigured) =>
        /\ net = <<>>
        /\ pc = "done" => (ret.status = "return" /\ HasKey(ret.v, "error"))

IsGit(e) == e.step[1] = "git"

\* The stage a history entry belongs to: validate, build, deploy.
Stage(e) ==
    IF e.step = Validate THEN 1 ELSE IF e.step = ZolaBuild THEN 2 ELSE 3

\* C28: publish_blog_post runs validate, build, deploy in that order and
\* stops at the first failing step: no build for a missing file or a file
\* that fails validation, no deploy after a failed build, and a deploy only
\* if auto_deploy is set.
C28_ValidateBuildDeploy ==
    (op.name = "publish_blog_post") =>
        /\ \A m, n \in 1 .. Len(cmds) : m < n => Stage(cmds[m]) <= Stage(cmds[n])
        /\ \A n \in 1 .. Len(cmds) :
              /\ Stage(cmds[n]) = 1 => n = 1 /\ pub_req.exists
              /\ Stage(cmds[n]) = 2 =>
                    /\ n = 2 /\ pub_req.auto_build
                    /\ cmds[1] = Step(Validate, TRUE)
              /\ Stage(cmds[n]) = 3 =>
                    /\ pub_req.auto_deploy
                    /\ cmds[1] = Step(Validate, TRUE)
                    /\ pub_req.auto_build <=> cmds[2] = Step(ZolaBuild, TRUE)
              /\ (Stage(cmds[n]) < 3 /\ ~cmds[n].ok) =>
                    /\ n = Len(cmds)
                    /\ pc = "done"
                    /\ HasKey(ret.v, "error")
        /\ (~pub_req.exists \/ ~validate_content(pub_req.content).valid) =>
              \A n \in 1 .. Len(cmds) : Stage(cmds[n]) = 1

C28_Witness ==
    /\ op.name = "publish_blog_post"
    /\ pc = "done"
    /\ pub_req.auto_build /\ pub_req.auto_deploy
    /\ cmds = <<Step(Validate, TRUE), Step(ZolaBuild, FALSE)>>
    /\ HasKey(ret.v, "error")

\* The git commands started so far, in order.
GitSteps == SelectSeq(cmds, IsGit)

\* C29: _deploy_site runs git add, git commit, git push in that order and
\* stops at the first command that exits non-zero; the success flag it
\* returns is true exactly when all three commands ran and each exited
\* with code 0.
C29_DeployStopsAtFirstFailure ==
    LET cs == commands(CommitMessage(pub_req))
    IN  /\ Len(GitSteps) <= Len(cs)
        /\ \A n \in 1 .. Len(GitSteps) :
              /\ GitSteps[n].step = cs[n]
              /\ n < Len(GitSteps) => GitSteps[n].ok
        /\ (pc = "done" /\ HasKey(ret.v, "deploy_result")) =>
              (ret.v.d["deploy_result"].success <=>
                  /\ Len(GitSteps) = Len(cs)
                  /\ \A n \in 1 .. Len(cs) : GitSteps[n].ok)

C29_Witness ==
    /\ pc = "done"
    /\ HasKey(ret.v, "deploy_result")
    /\ Len(GitSteps) = 2
    /\ GitSteps[1].ok /\ ~GitSteps[2].ok
    /\ Len(deploy_results) = 2
    /\ ~ret.v.d["deploy_result"].success

\* The tools C30 names, as the operations of this model.
NamedTools ==
    ContentToolNames \cup {"tool_generate_image", "batch_generate_images"}

\* The keys each content tool looks up in the parsed result.
LookedUp(tool) ==
    CASE tool = "create_blog_post"      -> {"title", "summary", "content"}
      [] tool = "optimize_blog_content" -> {"content", "improvements"}
      [] tool = "generate_blog_outline" ->
            {"structure", "estimated_length", "key_points"}

\* A content tool's AI call failed, or the response decoded to a value
\* the tool's lookups and helpers fail on.  A response that does not decode
\* is no failure: the parser's fallback has every key.
ContentStepFailed ==
    \/ ai_ret.status = "raise"
    \/ /\ json_loads(ai_ret.v.l).ok
       /\ \/ json_loads(ai_ret.v.l).t # "dict"
          \/ LookedUp(op.name) \ DOMAIN json_loads(ai_ret.v.l).d # {}
          \/ /\ op.name = "create_blog_post"
             /\ \E k \in {"title", "content"} :
                   json_loads(ai_ret.v.l).d[k] \in {<<"7">>, <<"null">>}

\* The generate_image tool's image call failed, or the download did.
ImageStepFailed ==
    \/ ai_ret.status = "raise"
    \/ /\ ai_ret.status = "return"
       /\ net[Len(net)] = "GET image_url"
       /\ tool_ret = ErrorDict("HTTPStatusError")

\* The entries of a batch whose generation failed.
FailedItems == { n \in 1 .. Len(results) : HasKey(results[n].result, "error") }

C30_WitnessBatch ==
    /\ op.name = "batch_generate_images"
    /\ pc = "done"
    /\ Len(op.prompts) = 2
    /\ FailedItems = {1}
    /\ ~HasKey(ret.v, "error")

====
